---- MODULE Spec2Model ----
(***************************************************************************)
(* Price-elasticity dashboard: the analytical core of                      *)
(* src/src/utils/elasticity.ts (calculateElasticity, optimizePrice).       *)
(*                                                                         *)
(* JavaScript numbers are binary floating point.  They are modelled as a   *)
(* binary floating-point format with round-to-nearest, ties-to-even, a     *)
(* significand of Precision bits (binary64 has 53) and the exponent range  *)
(* of binary64.  NaN and the two infinities are values of the format.      *)
(* Zero carries no sign and there are no subnormal numbers (a result below *)
(* the smallest subnormal of binary64 is zero).                            *)
(***************************************************************************)
EXTENDS Integers, Sequences, FiniteSets, TLC

(***************************************************************************)
(* Bounds of the model.                                                    *)
(***************************************************************************)
\* significand width of the modelled number format, in bits
Precision == 12
\* longest observation array handed to calculateElasticity
MaxLen == 3

(***************************************************************************)
(* The number format.                                                      *)
(***************************************************************************)
Pow2 == [k \in 0..30 |-> 2^k]

NaN == [cls |-> "nan", sgn |-> 1, man |-> 0, exp |-> 0]
PosInf == [cls |-> "inf", sgn |-> 1, man |-> 0, exp |-> 0]
NegInf == [cls |-> "inf", sgn |-> -1, man |-> 0, exp |-> 0]
Zero == [cls |-> "fin", sgn |-> 1, man |-> 0, exp |-> 0]

Inf(s) == IF s = 1 THEN PosInf ELSE NegInf

\* largest binary exponent of a finite binary64 value (below 2^1024)
ExpMax == 1023
\* binary exponent of the smallest positive binary64 value (2^-1074)
ExpMin == -1074

IsNaN(x) == x.cls = "nan"
IsInf(x) == x.cls = "inf"
IsZero(x) == x.cls = "fin" /\ x.man = 0
\* isFinite(x)
isFinite(x) == x.cls = "fin"

\* number of bits of the positive integer n (n < 2^30)
BitLen(n) ==
  IF n < Pow2[15]
  THEN (IF n < Pow2[8]
        THEN (IF n < Pow2[4]
              THEN (IF n < Pow2[1] THEN 1 ELSE IF n < Pow2[2] THEN 2 ELSE IF n < Pow2[3] THEN 3 ELSE 4)
              ELSE (IF n < Pow2[5] THEN 5 ELSE IF n < Pow2[6] THEN 6 ELSE IF n < Pow2[7] THEN 7 ELSE 8))
        ELSE (IF n < Pow2[12]
              THEN (IF n < Pow2[9] THEN 9 ELSE IF n < Pow2[10] THEN 10 ELSE IF n < Pow2[11] THEN 11 ELSE 12)
              ELSE (IF n < Pow2[13] THEN 13 ELSE IF n < Pow2[14] THEN 14 ELSE 15)))
  ELSE (IF n < Pow2[23]
        THEN (IF n < Pow2[19]
              THEN (IF n < Pow2[16] THEN 16 ELSE IF n < Pow2[17] THEN 17 ELSE IF n < Pow2[18] THEN 18 ELSE 19)
              ELSE (IF n < Pow2[20] THEN 20 ELSE IF n < Pow2[21] THEN 21 ELSE IF n < Pow2[22] THEN 22 ELSE 23))
        ELSE (IF n < Pow2[27]
              THEN (IF n < Pow2[24] THEN 24 ELSE IF n < Pow2[25] THEN 25 ELSE IF n < Pow2[26] THEN 26 ELSE 27)
              ELSE (IF n < Pow2[28] THEN 28 ELSE IF n < Pow2[29] THEN 29 ELSE 30)))

\* the finite value s * m * 2^x, m a significand, unless out of range
Ranged(s, m, x) ==
  IF x + Precision - 1 > ExpMax THEN Inf(s)
  ELSE IF x + Precision - 1 < ExpMin THEN Zero
  ELSE [cls |-> "fin", sgn |-> s, man |-> m, exp |-> x]

\* the significand q, possibly one past the largest, at exponent x
Carried(s, q, x) ==
  IF q = Pow2[Precision] THEN Ranged(s, Pow2[Precision - 1], x + 1)
  ELSE Ranged(s, q, x)

\* quotient q and remainder r of a division by 2 * half: to nearest, ties to even
Nearest(s, q, r, half, x) ==
  Carried(s, IF r > half \/ (r = half /\ q % 2 = 1) THEN q + 1 ELSE q, x)

\* s * n * 2^e rounded, n of d bits more than the significand
Shifted(s, n, e, d) ==
  IF d <= 0 THEN Ranged(s, n * Pow2[-d], e + d)
  ELSE Nearest(s, n \div Pow2[d], n % Pow2[d], Pow2[d - 1], e + d)

\* the value s * n * 2^e (n >= 0 an integer below 2^30) rounded to the format
Round(s, n, e) ==
  IF n = 0 THEN Zero ELSE Shifted(s, n, e, BitLen(n) - Precision)

\* the integer n with its sign apart
RoundSigned(n, e) ==
  Round(IF n < 0 THEN -1 ELSE 1, IF n < 0 THEN -n ELSE n, e)

\* an integer literal or integer-valued number
FromInt(i) == RoundSigned(i, 0)

FNeg(x) == IF x.cls = "nan" \/ IsZero(x) THEN x ELSE [x EXCEPT !.sgn = -x.sgn]

\* Math.abs
FAbs(x) == IF x.cls = "nan" THEN x ELSE [x EXCEPT !.sgn = 1]

\* a + b for finite non-zero a, b with a.exp >= b.exp
AddAligned(a, b) ==
  IF a.exp - b.exp > Precision + 1 THEN a
  ELSE RoundSigned(a.sgn * a.man * Pow2[a.exp - b.exp] + b.sgn * b.man, b.exp)

\* a + b
FAdd(a, b) ==
  IF IsNaN(a) \/ IsNaN(b) THEN NaN
  ELSE IF IsInf(a) THEN (IF IsInf(b) /\ b.sgn # a.sgn THEN NaN ELSE a)
  ELSE IF IsInf(b) THEN b
  ELSE IF IsZero(a) THEN b
  ELSE IF IsZero(b) THEN a
  ELSE AddAligned(IF a.exp >= b.exp THEN a ELSE b,
                  IF a.exp >= b.exp THEN b ELSE a)

\* a - b
FSub(a, b) == FAdd(a, FNeg(b))

\* a * b
FMul(a, b) ==
  IF IsNaN(a) \/ IsNaN(b) THEN NaN
  ELSE IF IsInf(a) \/ IsInf(b)
       THEN (IF IsZero(a) \/ IsZero(b) THEN NaN ELSE Inf(a.sgn * b.sgn))
  ELSE IF IsZero(a) \/ IsZero(b) THEN Zero
  ELSE Round(a.sgn * b.sgn, a.man * b.man, a.exp + b.exp)

\* the quotient of the significands with two guard bits and a sticky bit
Quotient(num, den) ==
  2 * (num \div den) + (IF num % den = 0 THEN 0 ELSE 1)

\* a / b
FDiv(a, b) ==
  IF IsNaN(a) \/ IsNaN(b) THEN NaN
  ELSE IF IsInf(a) THEN (IF IsInf(b) THEN NaN ELSE Inf(a.sgn * b.sgn))
  ELSE IF IsInf(b) THEN Zero
  ELSE IF IsZero(b) THEN (IF IsZero(a) THEN NaN ELSE Inf(a.sgn * b.sgn))
  ELSE IF IsZero(a) THEN Zero
  ELSE Round(a.sgn * b.sgn, Quotient(a.man * Pow2[Precision + 2], b.man),
             a.exp - b.exp - Precision - 3)

\* d > 0
IsPositive(d) == d.cls # "nan" /\ ~IsZero(d) /\ d.sgn = 1

\* a > b
FGt(a, b) == ~IsNaN(a) /\ ~IsNaN(b) /\ IsPositive(FSub(a, b))

\* a decimal literal num/den of the program text (num, den positive integers)
Lit(num, den) == FDiv(FromInt(num), FromInt(den))

\* the number literals 1, 2, 100, 0.9 and 1.1 of calculateElasticity
Num1 == FromInt(1)
Num2 == FromInt(2)
Num100 == FromInt(100)
Num0_9 == Lit(9, 10)
Num1_1 == Lit(11, 10)

(***************************************************************************)
(* Math.log and Math.pow.  ECMAScript leaves both implementation-          *)
(* approximated: Math.log is the natural logarithm rounded to the format,  *)
(* Math.pow goes through a base-2 logarithm and exponential computed in    *)
(* fixed point with FracBits fractional bits, and is exact where the       *)
(* library is (exponents 0, 1, -1 and 2).                                  *)
(***************************************************************************)
\* ln(v) * 2^24 to the nearest integer, v = 1..16
LnScaled == <<0, 11629080, 18431656, 23258160, 27001887, 30060736, 32646955,
              34887240, 36863311, 38630967, 40230007, 41689816, 43032709,
              44276035, 45433543, 46516320>>

\* Math.log of the integer-valued number v
MathLog(v) ==
  IF v < 0 THEN NaN
  ELSE IF v = 0 THEN NegInf
  ELSE Round(1, LnScaled[v], -24)

FracBits == Precision + 6
HalfBits == (FracBits + 1) \div 2
One == Pow2[FracBits]

\* 2^(2^-i) * 2^24 to the nearest integer, i = 1..24
Exp2Scaled == <<23726566, 19951585, 18295684, 17520007, 17144589, 16959908,
                16868315, 16822704, 16799944, 16788576, 16782895, 16780055,
                16778636, 16777926, 16777571, 16777393, 16777305, 16777260,
                16777238, 16777227, 16777222, 16777219, 16777217, 16777217>>

\* 2^(2^-i) in fixed point
Exp2Step(i) ==
  (Exp2Scaled[i] + Pow2[23 - FracBits]) \div Pow2[24 - FracBits]

\* a * b in fixed point, for 0 <= a, b < 4
MulFix(a, b) ==
  LET ah == a \div Pow2[HalfBits]
      al == a % Pow2[HalfBits]
      bh == b \div Pow2[HalfBits]
      bl == b % Pow2[HalfBits]
  IN ah * bh * Pow2[2 * HalfBits - FracBits]
     + ((ah * bl + al * bh) + ((al * bl) \div Pow2[HalfBits]))
         \div Pow2[FracBits - HalfBits]

\* the fractional bits i..FracBits of log2(z), 1 <= z < 2 in fixed point
RECURSIVE Log2Bits(_, _)
Log2Bits(z, i) ==
  IF i > FracBits THEN 0
  ELSE LET s == MulFix(z, z)
       IN IF s >= 2 * One
          THEN Pow2[FracBits - i] + Log2Bits(s \div 2, i + 1)
          ELSE Log2Bits(s, i + 1)

\* 2^f in fixed point, for the bits i..FracBits of the fraction f
RECURSIVE Exp2Bits(_, _)
Exp2Bits(f, i) ==
  IF i > FracBits THEN One
  ELSE LET rest == Exp2Bits(f, i + 1)
       IN IF (f \div Pow2[FracBits - i]) % 2 = 1
          THEN MulFix(rest, Exp2Step(i))
          ELSE rest

\* floor(a * m * 2^e) for a, m >= 0, when the result is below 2^30
MulShift(a, m, e) ==
  IF e >= 0 THEN a * m * Pow2[e]
  ELSE LET s == -e
           hi == (a \div Pow2[14]) * m
           lo == (a % Pow2[14]) * m
       IN IF s >= 14
          THEN (IF s - 14 > 30 THEN 0
                ELSE (hi + (lo \div Pow2[14])) \div Pow2[s - 14])
          ELSE hi * Pow2[14 - s] + (lo \div Pow2[s])

\* 2^(t / One), t in fixed point
Exp2Fixed(t) == Round(1, Exp2Bits(t % One, 1), (t \div One) - FracBits)

\* 2^(s * lg * y), lg > 0 the fixed-point base-2 logarithm of the base
Exp2Product(s, lg, y) ==
  IF BitLen(lg) + Precision + y.exp - 2 >= 29
  THEN (IF s = 1 THEN PosInf ELSE Zero)
  ELSE Exp2Fixed(s * MulShift(lg, y.man, y.exp))

\* x^y from the fixed-point base-2 logarithm lg of x
PowFromLog(lg, y) ==
  IF lg = 0 THEN Ranged(1, Pow2[Precision - 1], 1 - Precision)
  ELSE IF lg < 0 THEN Exp2Product(-y.sgn, -lg, y)
  ELSE Exp2Product(y.sgn, lg, y)

\* x^y for finite x > 0 and finite y # 0
PowPositive(x, y) ==
  PowFromLog((x.exp + Precision - 1) * One
               + Log2Bits(x.man * Pow2[FracBits - Precision + 1], 1), y)

\* is the finite non-zero number y an integer, an odd integer
IsInteger(y) ==
  y.exp >= 0 \/ (y.exp > -Precision /\ y.man % Pow2[-y.exp] = 0)
IsOddInteger(y) ==
  \/ y.exp = 0 /\ y.man % 2 = 1
  \/ y.exp < 0 /\ y.exp > -Precision /\ y.man % Pow2[-y.exp] = 0
       /\ (y.man \div Pow2[-y.exp]) % 2 = 1

\* is x the integer i, i = 1, -1 or 2
IsUnit(x, s) ==
  x.cls = "fin" /\ x.sgn = s /\ x.man = Pow2[Precision - 1] /\ x.exp = 1 - Precision
IsTwo(x) ==
  x.cls = "fin" /\ x.sgn = 1 /\ x.man = Pow2[Precision - 1] /\ x.exp = 2 - Precision

\* x^y for x # 0 finite and y # 0 finite, r the power of |x|
SignedPow(x, y, r) ==
  IF x.sgn = 1 THEN r
  ELSE IF ~IsInteger(y) THEN NaN
  ELSE IF IsOddInteger(y) THEN FNeg(r)
  ELSE r

\* Math.pow(x, y)
MathPow(x, y) ==
  IF IsNaN(y) THEN NaN
  ELSE IF IsZero(y) THEN Ranged(1, Pow2[Precision - 1], 1 - Precision)
  ELSE IF IsNaN(x) THEN NaN
  ELSE IF IsUnit(y, 1) THEN x
  ELSE IF IsUnit(y, -1)
       THEN FDiv(Ranged(1, Pow2[Precision - 1], 1 - Precision), x)
  ELSE IF IsTwo(y) THEN FMul(x, x)
  ELSE IF IsInf(y)
       THEN (IF IsUnit(FAbs(x), 1) THEN NaN
             ELSE IF (IsInf(x) \/ (~IsZero(x) /\ x.exp > 1 - Precision)
                        \/ (x.exp = 1 - Precision /\ x.man > Pow2[Precision - 1]))
                       = (y.sgn = 1)
                  THEN PosInf
             ELSE Zero)
  ELSE IF IsInf(x)
       THEN (IF y.sgn = -1 THEN Zero
             ELSE IF x.sgn = -1 /\ IsOddInteger(y) THEN NegInf ELSE PosInf)
  ELSE IF IsZero(x) THEN (IF y.sgn = 1 THEN Zero ELSE PosInf)
  ELSE SignedPow(x, y, PowPositive(FAbs(x), y))

(***************************************************************************)
(* calculateElasticity.                                                    *)
(***************************************************************************)
\* mutant: the early returns hand back undefined
NullAsUndefined == [kind |-> "undefined"]

\* the no-result value
Null == [kind |-> "null"]

\* new Date(sale_date).getTime(): milliseconds of the day-numbered date d
GetTime(d) == d * 86400000

\* the comparator handed to sort
CompareDates(a, b) == GetTime(a.sale_date) - GetTime(b.sale_date)

\* mutant: el goes in front of the elements it compares equal to
RECURSIVE InsertSortedBeforeEqual(_, _)
InsertSortedBeforeEqual(arr, el) ==
  IF arr = <<>> THEN <<el>>
  ELSE IF CompareDates(arr[Len(arr)], el) >= 0
       THEN Append(InsertSortedBeforeEqual(SubSeq(arr, 1, Len(arr) - 1), el),
                   arr[Len(arr)])
       ELSE Append(arr, el)

\* el put into the sorted array arr, behind every element that does not
\* compare greater than it
RECURSIVE InsertSorted(_, _)
InsertSorted(arr, el) ==
  IF arr = <<>> THEN <<el>>
  ELSE IF CompareDates(arr[Len(arr)], el) > 0
       THEN Append(InsertSorted(SubSeq(arr, 1, Len(arr) - 1), el), arr[Len(arr)])
       ELSE Append(arr, el)

\* mutant: a sort that reverses the elements that compare equal
RECURSIVE ArraySortTiesReversed(_)
ArraySortTiesReversed(arr) ==
  IF arr = <<>> THEN <<>>
  ELSE InsertSorted(ArraySortTiesReversed(Tail(arr)), Head(arr))

\* Array.prototype.sort with CompareDates: a stable sort
RECURSIVE ArraySort(_)
ArraySort(arr) ==
  IF arr = <<>> THEN <<>>
  ELSE InsertSorted(ArraySort(SubSeq(arr, 1, Len(arr) - 1)), arr[Len(arr)])

\* the element of logPoints made from an observation
LogPoint(point) ==
  [logPrice |-> MathLog(point.price),
   logQuantity |-> MathLog(point.quantity_sold),
   price |-> point.price,
   quantity |-> point.quantity_sold]

\* mutant: the filter looks at the price only
FiniteLogPriceOnly(point) == isFinite(point.logPrice)

\* the filter on logPoints
FiniteLogs(point) == isFinite(point.logPrice) /\ isFinite(point.logQuantity)

\* sortedData.map(...).filter(...)
LogPoints(sortedData) ==
  SelectSeq([i \in 1..Len(sortedData) |-> LogPoint(sortedData[i])], FiniteLogs)

\* reduce((sum, v) => sum + v, 0) over a sequence of numbers
RECURSIVE SumOf(_)
SumOf(s) ==
  IF s = <<>> THEN Zero
  ELSE FAdd(SumOf(SubSeq(s, 1, Len(s) - 1)), s[Len(s)])

MeanLogPrice(logPoints) ==
  FDiv(SumOf([i \in 1..Len(logPoints) |-> logPoints[i].logPrice]),
       FromInt(Len(logPoints)))

MeanLogQuantity(logPoints) ==
  FDiv(SumOf([i \in 1..Len(logPoints) |-> logPoints[i].logQuantity]),
       FromInt(Len(logPoints)))

\* the sums built by the loop over logPoints
Numerator(logPoints, meanLogPrice, meanLogQuantity) ==
  SumOf([i \in 1..Len(logPoints) |->
           FMul(FSub(logPoints[i].logPrice, meanLogPrice),
                FSub(logPoints[i].logQuantity, meanLogQuantity))])

\* priceDeviation * priceDeviation
Squared(priceDeviation) == FMul(priceDeviation, priceDeviation)

\* mutant: the squares summed are those of the quantity deviations
DenominatorOfQuantities(logPoints, meanLogPrice) ==
  SumOf([i \in 1..Len(logPoints) |->
           Squared(FSub(logPoints[i].logQuantity, MeanLogQuantity(logPoints)))])

Denominator(logPoints, meanLogPrice) ==
  SumOf([i \in 1..Len(logPoints) |->
           Squared(FSub(logPoints[i].logPrice, meanLogPrice))])

\* predicted[i]
Predicted(point, elasticity, meanLogPrice, meanLogQuantity) ==
  FAdd(meanLogQuantity, FMul(elasticity, FSub(point.logPrice, meanLogPrice)))

\* r_squared of the fitted line
RSquaredOf(totalSumSquares, residualSumSquares) ==
  IF FGt(totalSumSquares, Zero)
  THEN FSub(Num1, FDiv(residualSumSquares, totalSumSquares))
  ELSE Zero

RSquared(logPoints, elasticity, meanLogPrice, meanLogQuantity) ==
  RSquaredOf(
    SumOf([i \in 1..Len(logPoints) |->
             MathPow(FSub(logPoints[i].logQuantity, meanLogQuantity), Num2)]),
    SumOf([i \in 1..Len(logPoints) |->
             MathPow(FSub(logPoints[i].logQuantity,
                          Predicted(logPoints[i], elasticity,
                                    meanLogPrice, meanLogQuantity)),
                     Num2)]))

\* mutant: the boundary counts as elastic
IsElasticFromOne(elasticity) == ~FGt(Num1, FAbs(elasticity))

\* is_elastic
IsElastic(elasticity) == FGt(FAbs(elasticity), Num1)

\* mutant: both branches cut the price
RecommendedPriceAlwaysCut(is_elastic, current_price) ==
  FMul(current_price, Num0_9)

\* recommended_price of the two branches
RecommendedPrice(is_elastic, current_price) ==
  IF is_elastic THEN FMul(current_price, Num0_9)
  ELSE FMul(current_price, Num1_1)

\* mutant: a revenue of zero is given the change 0, as the profit branch does
RevenueChangeZeroBaseline(current_price, current_quantity, new_price, elasticity) ==
  LET predicted_quantity ==
        FMul(current_quantity, MathPow(FDiv(new_price, current_price), elasticity))
      current_revenue == FMul(current_price, current_quantity)
      predicted_revenue == FMul(new_price, predicted_quantity)
  IN IF FGt(current_revenue, Zero)
     THEN FMul(FDiv(FSub(predicted_revenue, current_revenue), current_revenue),
               Num100)
     ELSE Zero

\* mutant: the demand curve is given the inverse price ratio
RevenueChangeInverseRatio(current_price, current_quantity, new_price, elasticity) ==
  LET predicted_quantity ==
        FMul(current_quantity, MathPow(FDiv(current_price, new_price), elasticity))
      current_revenue == FMul(current_price, current_quantity)
      predicted_revenue == FMul(new_price, predicted_quantity)
  IN FMul(FDiv(FSub(predicted_revenue, current_revenue), current_revenue),
          Num100)

\* mutant: the predicted revenue is taken at the current price
RevenueChangeAtCurrentPrice(current_price, current_quantity, new_price, elasticity) ==
  LET predicted_quantity ==
        FMul(current_quantity, MathPow(FDiv(new_price, current_price), elasticity))
      current_revenue == FMul(current_price, current_quantity)
      predicted_revenue == FMul(current_price, predicted_quantity)
  IN FMul(FDiv(FSub(predicted_revenue, current_revenue), current_revenue),
          Num100)

\* mutant: the change of the revenue is not divided by the current revenue
RevenueChangeNotRelative(current_price, current_quantity, new_price, elasticity) ==
  LET predicted_quantity ==
        FMul(current_quantity, MathPow(FDiv(new_price, current_price), elasticity))
      current_revenue == FMul(current_price, current_quantity)
      predicted_revenue == FMul(new_price, predicted_quantity)
  IN FMul(FSub(predicted_revenue, current_revenue), Num100)

\* expected_revenue_change, the same computation in both branches
RevenueChange(current_price, current_quantity, new_price, elasticity) ==
  LET predicted_quantity ==
        FMul(current_quantity, MathPow(FDiv(new_price, current_price), elasticity))
      current_revenue == FMul(current_price, current_quantity)
      predicted_revenue == FMul(new_price, predicted_quantity)
  IN FMul(FDiv(FSub(predicted_revenue, current_revenue), current_revenue),
          Num100)

\* mutant: the current observation is the last one of the regression set
CurrentObservationOfLogPoints(sortedData, logPoints) ==
  [price |-> logPoints[Len(logPoints)].price,
   quantity_sold |-> logPoints[Len(logPoints)].quantity]

\* the observation current_price and current_quantity are read from
CurrentObservation(sortedData, logPoints) == sortedData[Len(sortedData)]

\* Lines 38-111 of a call: what it returns from the array it has sorted and
\* the logPoints it has taken from it.
EstimateFrom(sortedData, logPoints) ==
  IF Len(logPoints) < 2
  THEN [ret |-> Null, array |-> sortedData,
        frame |-> [at |-> 38, logPoints |-> logPoints]]
  ELSE
    LET meanLogPrice == MeanLogPrice(logPoints)
        meanLogQuantity == MeanLogQuantity(logPoints)
        numerator == Numerator(logPoints, meanLogPrice, meanLogQuantity)
        denominator == Denominator(logPoints, meanLogPrice)
    IN IF IsZero(denominator)
       THEN [ret |-> Null, array |-> sortedData,
             frame |-> [at |-> 56, logPoints |-> logPoints]]
       ELSE
         LET elasticity == FDiv(numerator, denominator)
             r_squared == RSquared(logPoints, elasticity,
                                   meanLogPrice, meanLogQuantity)
             is_elastic == IsElastic(elasticity)
             current_price ==
               FromInt(CurrentObservation(sortedData, logPoints).price)
             current_quantity ==
               FromInt(CurrentObservation(sortedData, logPoints).quantity_sold)
             recommended_price == RecommendedPrice(is_elastic, current_price)
             expected_revenue_change ==
               RevenueChange(current_price, current_quantity,
                             recommended_price, elasticity)
         IN [ret |-> [kind |-> "result",
                      elasticity |-> elasticity,
                      r_squared |-> r_squared,
                      is_elastic |-> is_elastic,
                      product_name |-> sortedData[1].product_name,
                      category |-> sortedData[1].category,
                      current_price |-> current_price,
                      recommended_price |-> recommended_price,
                      expected_revenue_change |-> expected_revenue_change],
             array |-> sortedData,
             frame |-> [at |-> 101, logPoints |-> logPoints,
                        current_quantity |-> current_quantity]]

\* The call calculateElasticity(dataPoints): ret is the value returned, array
\* the content of the array object dataPoints when the call returns (sort
\* works in place and returns the same array object, so dataPoints and
\* sortedData are one array from line 28 on), frame the locals.
calculateElasticity(dataPoints) ==
  IF Len(dataPoints) < 2
  THEN [ret |-> Null, array |-> dataPoints, frame |-> [at |-> 25]]
  ELSE
    LET sortedData == ArraySort(dataPoints)
        logPoints == LogPoints(sortedData)
    IN EstimateFrom(sortedData, logPoints)

(***************************************************************************)
(* optimizePrice.                                                          *)
(***************************************************************************)
\* the number literals 0.85, 1.15 and 1.2 of optimizePrice
Num0_85 == Lit(85, 100)
Num1_15 == Lit(115, 100)
Num1_2 == Lit(12, 10)

\* a number argument the caller leaves out; a left-out target is "undefined"
Undefined == [kind |-> "undefined"]

\* mutant: the boundary |elasticity| = 1 takes the elastic factor
OptimalFactorFromOne(elasticity, optimizationTarget) ==
  IF optimizationTarget = "revenue"
  THEN (IF ~FGt(Num1, FAbs(elasticity)) THEN Num0_85 ELSE Num1_15)
  ELSE (IF ~FGt(Num1, FAbs(elasticity)) THEN Num0_9 ELSE Num1_2)

\* the factor applied to currentPrice
OptimalFactor(elasticity, optimizationTarget) ==
  IF optimizationTarget = "revenue"
  THEN (IF FGt(FAbs(elasticity), Num1) THEN Num0_85 ELSE Num1_15)
  ELSE (IF FGt(FAbs(elasticity), Num1) THEN Num0_9 ELSE Num1_2)

\* mutant: the profit branch divides whatever the current profit is
ProfitChangeUnguarded(elasticity, currentPrice, currentQuantity, costPerUnit, optimal_price) ==
  LET predicted_quantity ==
        FMul(currentQuantity, MathPow(FDiv(optimal_price, currentPrice), elasticity))
      current_profit == FMul(FSub(currentPrice, costPerUnit), currentQuantity)
      predicted_profit == FMul(FSub(optimal_price, costPerUnit), predicted_quantity)
  IN FMul(FDiv(FSub(predicted_profit, current_profit), current_profit), Num100)

\* expected_change of the profit branch
ProfitChange(elasticity, currentPrice, currentQuantity, costPerUnit, optimal_price) ==
  LET predicted_quantity ==
        FMul(currentQuantity, MathPow(FDiv(optimal_price, currentPrice), elasticity))
      current_profit == FMul(FSub(currentPrice, costPerUnit), currentQuantity)
      predicted_profit == FMul(FSub(optimal_price, costPerUnit), predicted_quantity)
  IN IF FGt(current_profit, Zero)
     THEN FMul(FDiv(FSub(predicted_profit, current_profit), current_profit),
               Num100)
     ELSE Zero

\* mutant: the revenue target computes the change of the profit as well
optimizePriceNetOfCost(elasticity, currentPrice, currentQuantity, costArg, targetArg) ==
  LET costPerUnit == IF costArg = Undefined THEN Zero ELSE costArg
      optimizationTarget == IF targetArg = "undefined" THEN "revenue" ELSE targetArg
      optimal_price ==
        FMul(currentPrice, OptimalFactor(elasticity, optimizationTarget))
  IN [optimal_price |-> optimal_price,
      expected_change |->
        ProfitChange(elasticity, currentPrice, currentQuantity,
                     costPerUnit, optimal_price)]

\* The call optimizePrice(elasticity, currentPrice, currentQuantity, costArg,
\* targetArg), the last two possibly left out.
optimizePrice(elasticity, currentPrice, currentQuantity, costArg, targetArg) ==
  LET costPerUnit == IF costArg = Undefined THEN Zero ELSE costArg
      optimizationTarget == IF targetArg = "undefined" THEN "revenue" ELSE targetArg
      optimal_price ==
        FMul(currentPrice, OptimalFactor(elasticity, optimizationTarget))
  IN IF optimizationTarget = "revenue"
     THEN [optimal_price |-> optimal_price,
           expected_change |->
             RevenueChange(currentPrice, currentQuantity, optimal_price, elasticity)]
     ELSE [optimal_price |-> optimal_price,
           expected_change |->
             ProfitChange(elasticity, currentPrice, currentQuantity,
                          costPerUnit, optimal_price)]

(***************************************************************************)
(* The ElasticityAnalysis view: analyzeElasticity and the rows that        *)
(* saveRecommendations sends.                                              *)
(***************************************************************************)
\* the keys of productGroups in the order the reduce creates them
RECURSIVE GroupKeys(_)
GroupKeys(data) ==
  IF data = <<>> THEN <<>>
  ELSE LET keys == GroupKeys(SubSeq(data, 1, Len(data) - 1))
           key == data[Len(data)].product_name
       IN IF \E k \in 1..Len(keys) : keys[k] = key THEN keys
          ELSE Append(keys, key)

\* productGroups[key]: the items of data with that product_name, in the
\* order of data
GroupOf(data, key) ==
  SelectSeq(data, LAMBDA item : item.product_name = key)

\* what the forEach callback pushes for one product: its result, or nothing
ResultsOfGroup(productData) ==
  IF Len(productData) >= 2
  THEN LET ret == calculateElasticity(productData).ret
       IN IF ret = Null THEN <<>> ELSE <<ret>>
  ELSE <<>>

\* results after the forEach has visited the first n keys
RECURSIVE ResultsUpTo(_, _, _)
ResultsUpTo(data, keys, n) ==
  IF n = 0 THEN <<>>
  ELSE ResultsUpTo(data, keys, n - 1) \o ResultsOfGroup(GroupOf(data, keys[n]))

\* the keys under which the object literal {} already holds a value, which
\* it inherits from Object.prototype: all of them truthy, none an array
InheritedKeys ==
  {"constructor", "toString", "valueOf", "hasOwnProperty", "__proto__"}

\* the reduce throws a TypeError at an item whose product_name is such a key:
\* groups[key] is not created, and groups[key].push is not a function
ReduceThrows(data) ==
  \E i \in 1..Len(data) : data[i].product_name \in InheritedKeys

\* analyzeElasticity(data): the value handed to setElasticityResults, or
\* the exception that leaves the function before it
analyzeElasticity(data) ==
  IF ReduceThrows(data)
  THEN [threw |-> TRUE, results |-> <<>>]
  ELSE [threw |-> FALSE,
        results |-> ResultsUpTo(data, GroupKeys(data), Len(GroupKeys(data)))]

\* the row of a result with every product called elastic
RecommendationAllElastic(user_id, res) ==
  [user_id |-> user_id,
   product_name |-> res.product_name,
   category |-> res.category,
   current_price |-> res.current_price,
   recommended_price |-> res.recommended_price,
   elasticity_score |-> res.elasticity,
   product_type |-> "elastic",
   expected_revenue_change |-> res.expected_revenue_change,
   optimization_target |-> "revenue"]

\* the row saveRecommendations builds from one result
Recommendation(user_id, res) ==
  [user_id |-> user_id,
   product_name |-> res.product_name,
   category |-> res.category,
   current_price |-> res.current_price,
   recommended_price |-> res.recommended_price,
   elasticity_score |-> res.elasticity,
   product_type |-> IF res.is_elastic THEN "elastic" ELSE "inelastic",
   expected_revenue_change |-> res.expected_revenue_change,
   optimization_target |-> "revenue"]

(***************************************************************************)
(* The store: the tables sales_data and price_recommendations.             *)
(***************************************************************************)
\* the column lists of price_recommendations that carry a unique
\* constraint: the primary key only
UniqueColumns == {<<"id">>}

\* the rows of the table with row put in: over the row that has the same
\* values in the conflict columns, or behind the last row
PutRow(table, row, onConflict) ==
  IF \E k \in 1..Len(table) :
       \A c \in 1..Len(onConflict) : table[k][onConflict[c]] = row[onConflict[c]]
  THEN [k \in 1..Len(table) |->
          IF \A c \in 1..Len(onConflict) :
               table[k][onConflict[c]] = row[onConflict[c]]
          THEN row ELSE table[k]]
  ELSE Append(table, row)

RECURSIVE PutRows(_, _, _, _)
PutRows(table, rows, n, onConflict) ==
  IF n = 0 THEN table
  ELSE PutRow(PutRows(table, rows, n - 1, onConflict), rows[n], onConflict)

\* INSERT ... ON CONFLICT (onConflict) DO UPDATE: the statement is refused
\* when no unique constraint covers the conflict columns (the store checks
\* this before it looks at any row), and writes all its rows otherwise
Upsert(table, rows, onConflict) ==
  IF onConflict \notin UniqueColumns
  THEN [error |-> "there is no unique or exclusion constraint matching the ON CONFLICT specification",
        table |-> table]
  ELSE [error |-> "null",
        table |-> PutRows(table, rows, Len(rows), onConflict)]

\* a policy that lets every user insert every row
MayInsertAny(uid, row) == TRUE

\* the policy for INSERT on both tables: WITH CHECK (auth.uid() = user_id)
MayInsert(uid, row) == uid = row.user_id

\* a table that takes every price and quantity
RowAcceptedUnchecked(row) == TRUE

\* the CHECK constraints of sales_data on price and quantity_sold
RowAccepted(row) == row.price > 0 /\ row.quantity_sold >= 0

\* INSERT INTO sales_data by the user uid: each row passes the policy and
\* then the constraints, and the first row that does not fails the whole
\* statement
InsertSalesData(table, rows, uid) ==
  IF \E k \in 1..Len(rows) : ~MayInsert(uid, rows[k]) \/ ~RowAccepted(rows[k])
  THEN LET k == CHOOSE j \in 1..Len(rows) :
                  /\ ~MayInsert(uid, rows[j]) \/ ~RowAccepted(rows[j])
                  /\ \A i \in 1..(j - 1) :
                       MayInsert(uid, rows[i]) /\ RowAccepted(rows[i])
       IN [error |-> IF ~MayInsert(uid, rows[k])
                     THEN "new row violates row-level security policy for table \"sales_data\""
                     ELSE "new row for relation \"sales_data\" violates check constraint",
           table |-> table]
  ELSE [error |-> "null", table |-> table \o rows]

\* the policies for SELECT, UPDATE and DELETE on both tables:
\* USING (auth.uid() = user_id)
MayUse(uid, row) == uid = row.user_id

\* the CHECK constraints of price_recommendations
RecommendationAccepted(row) ==
  /\ row.product_type \in {"elastic", "inelastic"}
  /\ row.optimization_target \in {"revenue", "profit"}

\* INSERT INTO price_recommendations of one row by the user uid
InsertRecommendation(table, row, uid) ==
  IF ~MayInsert(uid, row)
  THEN [error |-> "new row violates row-level security policy for table \"price_recommendations\"",
        table |-> table]
  ELSE IF ~RecommendationAccepted(row)
  THEN [error |-> "new row for relation \"price_recommendations\" violates check constraint",
        table |-> table]
  ELSE [error |-> "null", table |-> Append(table, row)]

\* UPDATE of the row at k to row by the user uid, accepted telling whether
\* row passes the table's constraints: a row the policy hides is not
\* matched, and the new row has to pass the policy as well
UpdateRow(table, k, row, uid, accepted) ==
  IF ~MayUse(uid, table[k]) THEN [error |-> "null", table |-> table]
  ELSE IF ~MayUse(uid, row)
  THEN [error |-> "new row violates row-level security policy", table |-> table]
  ELSE IF ~accepted
  THEN [error |-> "new row violates check constraint", table |-> table]
  ELSE [error |-> "null", table |-> [table EXCEPT ![k] = row]]

\* the table without its row at k
Without(table, k) ==
  [i \in 1..(Len(table) - 1) |-> IF i < k THEN table[i] ELSE table[i + 1]]

\* DELETE of the row at k by the user uid
DeleteRow(table, k, uid) ==
  IF MayUse(uid, table[k])
  THEN [error |-> "null", table |-> Without(table, k)]
  ELSE [error |-> "null", table |-> table]

\* the rows at the positions S of a table in the orders that ORDER BY
\* sale_date may give them
RECURSIVE RowsBySaleDate(_, _)
RowsBySaleDate(table, S) ==
  IF S = {} THEN {<<>>}
  ELSE UNION {{<<table[k]>> \o rest : rest \in RowsBySaleDate(table, S \ {k})} :
              k \in {j \in S : \A i \in S :
                       table[j].sale_date <= table[i].sale_date}}

\* the rows the query of fetchSalesData reads for the user uid
SalesRowsRead(table, uid, user_id) ==
  RowsBySaleDate(table, {k \in 1..Len(table) :
                           MayUse(uid, table[k]) /\ table[k].user_id = user_id})

\* the rows the query of fetchRecommendations reads for the user uid, the
\* row created last first: the table keeps its rows in the order of their
\* creation
RECURSIVE Reversed(_)
Reversed(seq) ==
  IF seq = <<>> THEN <<>> ELSE Append(Reversed(Tail(seq)), Head(seq))

RecommendationsRead(table, uid, user_id) ==
  Reversed(SelectSeq(table,
                     LAMBDA row : MayUse(uid, row) /\ row.user_id = user_id))

(***************************************************************************)
(* The callers' inputs.                                                    *)
(***************************************************************************)
Prices == {0, 3, 6}
Quantities == {0, 3, 6, 12}
Dates == {1, 2}
\* the observation at input position i carries its own name and category
Names == <<"p1", "p2", "p3", "p4">>
Categories == <<"c1", "c2", "c3", "c4">>

\* price and quantity of an observation: both positive, or a price of 0, or
\* a quantity of 0
Measurements ==
  {m \in Prices \X Quantities :
     \/ m[1] > 0 /\ m[2] > 0
     \/ m = <<0, 3>>
     \/ m = <<3, 0>>}

\* the observation at input position i with measurement m and sale date d
Observation(m, d, i) ==
  [price |-> m[1], quantity_sold |-> m[2], sale_date |-> d,
   product_name |-> Names[i], category |-> Categories[i]]

\* the arrays of n observations
ArraysOfLength(n) ==
  {[i \in 1..n |-> Observation(c[i][1], c[i][2], i)] :
     c \in [1..n -> Measurements \X Dates]}

Elasticities ==
  {FromInt(-2), Lit(3, 2), FromInt(-1), FNeg(Lit(1, 2)), Zero, FromInt(1)}
CurrentPrices == {FromInt(20), FromInt(100)}
CurrentQuantities == {Zero, FromInt(50), FromInt(100)}
Costs == {Undefined, FromInt(5), FromInt(20), FromInt(120)}
Targets == {"undefined", "revenue", "profit"}

OptimizeArgs ==
  [elasticity : Elasticities, currentPrice : CurrentPrices,
   currentQuantity : CurrentQuantities, costPerUnit : Costs,
   optimizationTarget : Targets]

(***************************************************************************)
(* The state: a caller holding an array of observations and the values     *)
(* the two functions returned to it.                                       *)
(***************************************************************************)
VARIABLES
  dataPoints,   \* the caller's array object
  passed,       \* its content when calculateElasticity was last called on it
  result,       \* what calculateElasticity returned, None before a call
  frame,        \* the locals of that call
  optArgs,      \* the arguments of the last optimizePrice call
  optResult,    \* what optimizePrice returned, None before a call
  second,       \* what a second call on the same array object returned
  sales_data,             \* the table sales_data
  price_recommendations,  \* the table price_recommendations
  salesData,              \* the state salesData of each user's analysis view
  elasticityResults,      \* the state elasticityResults of each user's view
  loading,                \* the state loading of each user's view
  toast,                  \* the last toast each user's view has shown
  saved,                  \* per user and product, the last row a save has sent
  productGroups,  \* the array object of each product group
  given,          \* its content when the group was built
  at,             \* the line each product's invocation has reached
  frames,         \* the locals of the invocations, per frame
  returned,       \* what each product's invocation has returned
  session,        \* the user useAuth gives each view, "null" when signed out
  step,           \* what the handler that ran last has done
  formData,       \* the state formData of each user's upload view
  uploading,      \* the state loading of each user's upload view
  pending,        \* the requests the store has not answered yet
  started,        \* the number of requests the handlers have started
  answers,        \* the rows each read has brought its view, by request
  recommendations,  \* the state recommendations of each user's list view
  listLoading,      \* the state loading of each user's list view
  profile,          \* the state profile of each user's dashboard
  dashLoading       \* the state loading of each user's dashboard

callVars == <<dataPoints, passed, result, frame, optArgs, optResult, second>>
viewVars == <<sales_data, price_recommendations, salesData, elasticityResults,
              loading, toast, saved>>
runVars == <<productGroups, given, at, frames, returned>>
uploadVars == <<formData, uploading>>
asyncVars == <<pending, started, answers>>
pageVars == <<recommendations, listLoading, profile, dashLoading>>
appVars == <<session, step, uploadVars, asyncVars, pageVars>>
vars == <<callVars, viewVars, runVars, appVars>>

None == [kind |-> "none"]

Users == {"u1", "u2"}

\* no table holds a row and no view is mounted
NoView ==
  /\ sales_data = <<>>
  /\ price_recommendations = <<>>
  /\ salesData = [u \in Users |-> <<>>]
  /\ elasticityResults = [u \in Users |-> <<>>]
  /\ loading = [u \in Users |-> TRUE]
  /\ toast = [u \in Users |-> "none"]
  /\ saved = [u \in Users |-> [p \in {} |-> None]]

\* no product group has been built
NoRun ==
  /\ productGroups = <<>>
  /\ given = <<>>
  /\ at = <<>>
  /\ frames = <<>>
  /\ returned = <<>>

\* the day the upload form opens with
Today == 3

\* the form of the upload view as it opens
InitialForm ==
  [product_name |-> "", category |-> "", price |-> 0, quantity_sold |-> 0,
   sale_date |-> Today]

\* no upload view has been touched
NoUpload ==
  /\ formData = [u \in Users |-> InitialForm]
  /\ uploading = [u \in Users |-> FALSE]

\* no request is under way
NoRequest ==
  /\ pending = {}
  /\ started = 0
  /\ answers = <<>>

\* no list view and no dashboard has loaded
NoPage ==
  /\ recommendations = [u \in Users |-> <<>>]
  /\ listLoading = [u \in Users |-> TRUE]
  /\ profile = [u \in Users |-> None]
  /\ dashLoading = [u \in Users |-> TRUE]

\* every view has its user and no handler has run
NoApp ==
  /\ session = [u \in Users |-> u]
  /\ step = None
  /\ NoUpload
  /\ NoRequest
  /\ NoPage

\* no caller of the library functions is running
NoCall ==
  /\ dataPoints = <<>>
  /\ passed = <<>>
  /\ result = None
  /\ frame = None
  /\ optArgs = None
  /\ optResult = None
  /\ second = None

Init ==
  /\ \E n \in 0..MaxLen : dataPoints \in ArraysOfLength(n)
  /\ passed = <<>>
  /\ result = None
  /\ frame = None
  /\ optArgs = None
  /\ optResult = None
  /\ second = None
  /\ NoView
  /\ NoRun
  /\ NoApp

\* the caller calls calculateElasticity on its array, once: the array it
\* passes is the one it has just built
CallCalculateElasticity ==
  /\ result = None
  /\ optResult = None
  /\ \E call \in {calculateElasticity(dataPoints)} :
       /\ passed' = dataPoints
       /\ dataPoints' = call.array
       /\ result' = call.ret
       /\ frame' = call.frame
  /\ UNCHANGED <<appVars, optArgs, optResult, second, viewVars, runVars>>

\* a caller calls optimizePrice, which takes no observations: its calls are
\* explored from the caller that holds none
CallOptimizePrice ==
  /\ result = None
  /\ optResult = None
  /\ dataPoints = <<>>
  /\ \E args \in OptimizeArgs :
       /\ optArgs' = args
       /\ optResult' = optimizePrice(args.elasticity, args.currentPrice,
                                     args.currentQuantity, args.costPerUnit,
                                     args.optimizationTarget)
  /\ UNCHANGED <<appVars, dataPoints, passed, result, frame, second, viewVars, runVars>>

Next == CallCalculateElasticity \/ CallOptimizePrice

Spec == Init /\ [][Next]_vars

(***************************************************************************)
(* A caller whose series have three price and three quantity levels, for   *)
(* the claims about the fitted line.                                       *)
(***************************************************************************)
FitLevels == {3, 6, 12}
FitMeasurements == (FitLevels \X FitLevels) \cup {<<0, 3>>, <<3, 0>>}

\* the sale dates of a series of n observations: all on one day, or one day
\* apart with the latest first
DatePatterns(n) == {[i \in 1..n |-> 1], [i \in 1..n |-> n + 1 - i]}

InitFit ==
  /\ \E n \in 0..MaxLen :
       dataPoints \in
         {[i \in 1..n |-> Observation(c[i], d[i], i)] :
            c \in [1..n -> FitMeasurements], d \in DatePatterns(n)}
  /\ passed = <<>>
  /\ result = None
  /\ frame = None
  /\ optArgs = None
  /\ optResult = None
  /\ second = None
  /\ NoView
  /\ NoRun
  /\ NoApp

NextFit == CallCalculateElasticity

SpecFit == InitFit /\ [][NextFit]_vars

(***************************************************************************)
(* A caller that calls calculateElasticity twice on the same array object. *)
(***************************************************************************)
RepeatMeasurements == {<<3, 6>>, <<6, 3>>, <<6, 12>>, <<3, 0>>, <<0, 3>>}

InitRepeat ==
  /\ \E n \in 0..MaxLen :
       dataPoints \in
         {[i \in 1..n |-> Observation(c[i][1], c[i][2], i)] :
            c \in [1..n -> RepeatMeasurements \X Dates]}
  /\ passed = <<>>
  /\ result = None
  /\ frame = None
  /\ optArgs = None
  /\ optResult = None
  /\ second = None
  /\ NoView
  /\ NoRun
  /\ NoApp

\* the caller calls calculateElasticity again on the array object it passed
\* before
CallCalculateElasticityAgain ==
  /\ result # None
  /\ second = None
  /\ \E call \in {calculateElasticity(dataPoints)} :
       /\ dataPoints' = call.array
       /\ second' = call.ret
  /\ UNCHANGED <<appVars, passed, result, frame, optArgs, optResult, viewVars, runVars>>

NextRepeat == CallCalculateElasticity \/ CallCalculateElasticityAgain

SpecRepeat == InitRepeat /\ [][NextRepeat]_vars

(***************************************************************************)
(* Calls on series that lie on or next to one curve of unit elasticity,    *)
(* price x quantity = 15.                                                  *)
(***************************************************************************)
UnitMeasurements ==
  {<<1, 15>>, <<3, 5>>, <<5, 3>>, <<15, 1>>, <<3, 3>>, <<5, 1>>}

InitUnit ==
  /\ \E n \in 2..MaxLen :
       dataPoints \in {[i \in 1..n |-> Observation(c[i], i, i)] :
                         c \in [1..n -> UnitMeasurements]}
  /\ passed = <<>>
  /\ result = None
  /\ frame = None
  /\ optArgs = None
  /\ optResult = None
  /\ second = None
  /\ NoView
  /\ NoRun
  /\ NoApp

NextUnit == CallCalculateElasticity

SpecUnit == InitUnit /\ [][NextUnit]_vars

(***************************************************************************)
(* The analysis view over the store: each user's view fetches that user's  *)
(* sales data, analyses it and saves the recommendations.                  *)
(***************************************************************************)
MaxRows == 3

ProductNames == {"p1", "p2", "constructor"}
CategoryOf == [p \in ProductNames |-> IF p = "p1" THEN "c1" ELSE "c2"]
RowMeasurements == {<<3, 6>>, <<6, 3>>, <<3, 0>>}

\* what one row of the first user may hold
RowContents ==
  {<<"p1", <<3, 6>>>>, <<"p1", <<6, 3>>>>, <<"p2", <<6, 3>>>>,
   <<"p2", <<3, 0>>>>, <<"constructor", <<6, 3>>>>}

\* the days of n rows: each row a day earlier than the one before it, and
\* the last two on one day
RowDates(n) ==
  {[i \in 1..n |-> IF i = n /\ n > 1 THEN 2 ELSE n + 1 - i]}

SalesRow(user_id, product_name, m, sale_date) ==
  [user_id |-> user_id, product_name |-> product_name,
   category |-> CategoryOf[product_name], price |-> m[1],
   quantity_sold |-> m[2], sale_date |-> sale_date]

\* the rows of the second user
OtherRows ==
  <<SalesRow("u2", "p1", <<3, 6>>, 1), SalesRow("u2", "p1", <<6, 3>>, 2)>>

\* the tables that hold n rows of the first user
SalesTablesOf(n) ==
  {[i \in 1..n |-> SalesRow("u1", c[i][1], c[i][2], d[i])] \o OtherRows :
     c \in [1..n -> RowContents], d \in RowDates(n)}

\* the columns fetchSalesData selects
Selected(row) ==
  [product_name |-> row.product_name, category |-> row.category,
   price |-> row.price, quantity_sold |-> row.quantity_sold,
   sale_date |-> row.sale_date]

\* the orders in which the store may return the rows at the positions S of
\* a table under ORDER BY sale_date: rows of one day come in any order
RECURSIVE OrderedBySaleDate(_, _)
OrderedBySaleDate(table, S) ==
  IF S = {} THEN {<<>>}
  ELSE UNION {{<<Selected(table[k])>> \o rest :
                 rest \in OrderedBySaleDate(table, S \ {k})} :
              k \in {j \in S : \A i \in S :
                       table[j].sale_date <= table[i].sale_date}}

\* the answers the store may give to the query of fetchSalesData
SelectSalesData(table, user_id) ==
  OrderedBySaleDate(table, {k \in 1..Len(table) : table[k].user_id = user_id})

InitView ==
  /\ NoCall
  /\ \E n \in 0..MaxRows : sales_data \in SalesTablesOf(n)
  /\ price_recommendations = <<>>
  /\ salesData = [u \in Users |-> <<>>]
  /\ elasticityResults = [u \in Users |-> <<>>]
  /\ loading = [u \in Users |-> TRUE]
  /\ toast = [u \in Users |-> "none"]
  /\ saved = [u \in Users |-> [p \in {} |-> None]]
  /\ NoRun
  /\ NoApp

\* fetchSalesData of user's view, started by the mount effect or by Refresh
\* (which the view offers when it is not loading), with the store's answer:
\* an exception of analyzeElasticity comes after setSalesData and is caught
FetchSalesData(user) ==
  /\ \E data \in SelectSalesData(sales_data, user) :
       \E analysis \in {analyzeElasticity(data)} :
          /\ salesData' = [salesData EXCEPT ![user] = data]
          /\ elasticityResults' =
               IF analysis.threw THEN elasticityResults
               ELSE [elasticityResults EXCEPT ![user] = analysis.results]
          /\ toast' =
               IF analysis.threw
               THEN [toast EXCEPT ![user] = "Failed to fetch sales data"]
               ELSE toast
  /\ loading' = [loading EXCEPT ![user] = FALSE]
  /\ UNCHANGED <<appVars, callVars, runVars, sales_data, price_recommendations, saved>>

\* fetchSalesData when the query fails
FetchSalesDataError(user) ==
  /\ toast' = [toast EXCEPT ![user] = "Failed to fetch sales data"]
  /\ loading' = [loading EXCEPT ![user] = FALSE]
  /\ UNCHANGED <<appVars, callVars, runVars, sales_data, price_recommendations, salesData,
                 elasticityResults, saved>>

\* the rows saveRecommendations sends
Recommendations(user) ==
  [k \in 1..Len(elasticityResults[user]) |->
     Recommendation(session[user], elasticityResults[user][k])]

\* the rows the saves of a view have sent last, by product, after the rows
\* recs have been sent
SavedWith(view, recs) ==
  [p \in DOMAIN saved[view] \cup
         {recs[k].product_name : k \in 1..Len(recs)} |->
     IF \E k \in 1..Len(recs) : recs[k].product_name = p
     THEN recs[CHOOSE k \in 1..Len(recs) : recs[k].product_name = p]
     ELSE saved[view][p]]

\* what a run of saveRecommendations has done: the user it ran under, the
\* number of results it held and the rows it has asked the store to put
SaveStep(view, asked, rows) ==
  [op |-> "saveRecommendations", view |-> view, user |-> session[view],
   held |-> Len(elasticityResults[view]), asked |-> asked, rows |-> rows]

\* saveRecommendations of a view, which offers it when it is not loading
\* and holds a result, with the store's answer: it returns at once under no
\* user
SaveRecommendations(view) ==
  /\ ~loading[view]
  /\ Len(elasticityResults[view]) # 0
  /\ IF session[view] = "null" \/ Len(elasticityResults[view]) = 0
     THEN /\ step' = SaveStep(view, FALSE, <<>>)
          /\ UNCHANGED <<price_recommendations, toast, saved, loading>>
     ELSE \E recs \in {Recommendations(view)} :
          \E answer \in {Upsert(price_recommendations, recs,
                                <<"user_id", "product_name">>)} :
             /\ step' = SaveStep(view, TRUE, recs)
             /\ price_recommendations' = answer.table
             /\ toast' = [toast EXCEPT ![view] =
                            IF answer.error = "null"
                            THEN "Price recommendations saved successfully"
                            ELSE answer.error]
             /\ saved' = [saved EXCEPT ![view] = SavedWith(view, recs)]
             /\ loading' = [loading EXCEPT ![view] = FALSE]
  /\ UNCHANGED <<session, uploadVars, asyncVars, pageVars, callVars, runVars,
                 sales_data, salesData, elasticityResults>>

NextView ==
  \E user \in Users :
    \/ FetchSalesData(user)
    \/ FetchSalesDataError(user)
    \/ SaveRecommendations(user)

SpecView == InitView /\ [][NextView]_vars

(***************************************************************************)
(* The analysis view under the users its session hook may give: the hook   *)
(* gives the view's user or none, and may give another value at any        *)
(* render.                                                                 *)
(***************************************************************************)
\* what one row of the first user may hold: the prices 3 and 6 with the
\* quantities 12 and 3 give an elasticity of -2, with 3 and 6 one of 1
SaveContents ==
  {<<"p1", <<3, 12>>>>, <<"p1", <<6, 3>>>>, <<"p1", <<3, 3>>>>,
   <<"p2", <<6, 3>>>>}

\* the rows of the second user, of an elasticity of -1/2
SaveOtherRows ==
  <<SalesRow("u2", "p2", <<3, 12>>, 1), SalesRow("u2", "p2", <<12, 6>>, 2)>>

SaveTablesOf(n) ==
  {[i \in 1..n |-> SalesRow("u1", c[i][1], c[i][2], d[i])] \o SaveOtherRows :
     c \in [1..n -> SaveContents], d \in RowDates(n)}

InitSave ==
  /\ NoCall
  /\ \E n \in 0..MaxRows : sales_data \in SaveTablesOf(n)
  /\ price_recommendations = <<>>
  /\ salesData = [u \in Users |-> <<>>]
  /\ elasticityResults = [u \in Users |-> <<>>]
  /\ loading = [u \in Users |-> TRUE]
  /\ toast = [u \in Users |-> "none"]
  /\ saved = [u \in Users |-> [p \in {} |-> None]]
  /\ NoRun
  /\ session \in {s \in [Users -> Users \cup {"null"}] :
                    \A u \in Users : s[u] \in {u, "null"}}
  /\ step = None
  /\ NoUpload
  /\ NoRequest
  /\ NoPage

\* the session hook gives the view another value: its user signs out or in
UserChanges(view) ==
  /\ session' = [session EXCEPT ![view] =
                   IF session[view] = "null" THEN view ELSE "null"]
  /\ UNCHANGED <<callVars, viewVars, runVars, step, uploadVars, asyncVars,
                 pageVars>>

\* the effect of the view, which fetches when the hook gives a user
FetchAsUser(view) ==
  /\ session[view] # "null"
  /\ FetchSalesData(view)

NextSave ==
  \E view \in Users :
    \/ UserChanges(view)
    \/ FetchAsUser(view)
    \/ SaveRecommendations(view)

SpecSave == InitSave /\ [][NextSave]_vars

(***************************************************************************)
(* The upload view: the form of a single record and the generator of mock  *)
(* records, each a request to the store and, later, its answer.            *)
(***************************************************************************)
MaxRequests == 3

\* what the user may give the fields of the form
FieldInputs ==
  [product_name |-> {"", "p1"}, category |-> {"", "c1"},
   price |-> {-3, 0, 3}, quantity_sold |-> {0, 3}, sale_date |-> {Today}]

\* the form passes the browser's validation: every field is required, the
\* price and the quantity show as empty when they are 0, and neither may be
\* under its min of 0
FormValid(fd) ==
  /\ fd.product_name # ""
  /\ fd.category # ""
  /\ fd.price # 0 /\ fd.price >= 0
  /\ fd.quantity_sold # 0 /\ fd.quantity_sold >= 0

MockRecord(product_name, category, price, quantity_sold, sale_date) ==
  [product_name |-> product_name, category |-> category, price |-> price,
   quantity_sold |-> quantity_sold, sale_date |-> sale_date]

\* the records of generateMockData, their days as year, month and day
MockData ==
  <<MockRecord("Gaming Laptop", "Electronics", 1200, 25, 20240115),
    MockRecord("Gaming Laptop", "Electronics", 1000, 45, 20240215),
    MockRecord("Gaming Laptop", "Electronics", 800, 80, 20240315),
    MockRecord("Wireless Headphones", "Electronics", 150, 40, 20240120),
    MockRecord("Wireless Headphones", "Electronics", 120, 70, 20240220),
    MockRecord("Wireless Headphones", "Electronics", 100, 120, 20240320),
    MockRecord("Programming Guide", "Books", 50, 100, 20240110),
    MockRecord("Programming Guide", "Books", 45, 105, 20240210),
    MockRecord("Programming Guide", "Books", 55, 95, 20240310),
    MockRecord("Business Strategy", "Books", 30, 80, 20240125),
    MockRecord("Business Strategy", "Books", 35, 75, 20240225),
    MockRecord("Business Strategy", "Books", 25, 85, 20240325),
    MockRecord("Designer T-Shirt", "Clothing", 80, 30, 20240105),
    MockRecord("Designer T-Shirt", "Clothing", 60, 60, 20240205),
    MockRecord("Designer T-Shirt", "Clothing", 40, 100, 20240305),
    MockRecord("Organic Coffee", "Food", 15, 200, 20240108),
    MockRecord("Organic Coffee", "Food", 18, 190, 20240208),
    MockRecord("Organic Coffee", "Food", 12, 210, 20240308)>>

\* a record with the user's id put before it
WithUser(user_id, record) ==
  [user_id |-> user_id, product_name |-> record.product_name,
   category |-> record.category, price |-> record.price,
   quantity_sold |-> record.quantity_sold, sale_date |-> record.sale_date]

\* a request a view has sent to the store: n numbers the requests the
\* handlers start, answer is what the store has answered and from holds the
\* rows of the table that the answer was read from
Request(op, view, rows) ==
  [n |-> started + 1, op |-> op, view |-> view, user |-> session[view],
   rows |-> rows, answer |-> None, from |-> <<>>]

InitUpload ==
  /\ NoCall
  /\ NoView
  /\ NoRun
  /\ NoApp

\* handleInputChange, from the onChange of a field
HandleInputChange(view) ==
  /\ \E field \in DOMAIN FieldInputs : \E value \in FieldInputs[field] :
       formData' = [formData EXCEPT ![view][field] = value]
  /\ UNCHANGED <<callVars, viewVars, runVars, session, step, uploading,
                 asyncVars, pageVars>>

\* handleSingleUpload up to its await: the form submits when it is valid
\* and its button is not disabled
HandleSingleUpload(view) ==
  /\ ~uploading[view]
  /\ FormValid(formData[view])
  /\ session[view] # "null"
  /\ started < MaxRequests
  /\ uploading' = [uploading EXCEPT ![view] = TRUE]
  /\ pending' = pending \cup
       {Request("handleSingleUpload", view,
                <<WithUser(session[view], formData[view])>>)}
  /\ started' = started + 1
  /\ UNCHANGED answers
  /\ UNCHANGED <<callVars, viewVars, runVars, session, step, formData,
                 pageVars>>

\* generateMockData up to its await
GenerateMockData(view) ==
  /\ ~uploading[view]
  /\ session[view] # "null"
  /\ started < MaxRequests
  /\ uploading' = [uploading EXCEPT ![view] = TRUE]
  /\ pending' = pending \cup
       {Request("generateMockData", view,
                [k \in 1..Len(MockData) |->
                   WithUser(session[view], MockData[k])])}
  /\ started' = started + 1
  /\ UNCHANGED answers
  /\ UNCHANGED <<callVars, viewVars, runVars, session, step, formData,
                 pageVars>>

\* what a run of an upload handler has done: the rows it has sent, the
\* error of the answer and the number of rows the table has gained
UploadStep(req, answer) ==
  [op |-> req.op, view |-> req.view, user |-> req.user, rows |-> req.rows,
   error |-> answer.error, stored |-> Len(answer.table) - Len(sales_data)]

\* the rest of an upload handler, from the answer on
AfterInsert(req, answer) ==
  /\ sales_data' = answer.table
  /\ toast' = [toast EXCEPT ![req.view] =
                 IF answer.error # "null" THEN answer.error
                 ELSE IF req.op = "handleSingleUpload"
                      THEN "Sales record added successfully"
                      ELSE "Generated 18 mock sales records"]
  /\ formData' = IF answer.error = "null" /\ req.op = "handleSingleUpload"
                 THEN [formData EXCEPT ![req.view] = InitialForm]
                 ELSE formData
  /\ uploading' = [uploading EXCEPT ![req.view] = FALSE]
  /\ step' = UploadStep(req, answer)
  /\ pending' = pending \ {req}
  /\ UNCHANGED <<callVars, runVars, session, started, answers, pageVars,
                 price_recommendations, salesData, elasticityResults, loading,
                 saved>>

UploadOps == {"handleSingleUpload", "generateMockData"}

\* the store runs the insert of an upload and answers
InsertAnswered ==
  \E req \in pending :
    /\ req.op \in UploadOps
    /\ AfterInsert(req, InsertSalesData(sales_data, req.rows, req.user))

\* the request of an upload does not reach the store
InsertFailed ==
  \E req \in pending :
    /\ req.op \in UploadOps
    /\ AfterInsert(req, [error |-> "Failed to fetch", table |-> sales_data])

\* the users whose upload view is open
Uploaders == {"u1"}

NextUpload ==
  \/ \E view \in Uploaders :
       \/ HandleInputChange(view)
       \/ HandleSingleUpload(view)
       \/ GenerateMockData(view)
  \/ InsertAnswered
  \/ InsertFailed

SpecUpload == InitUpload /\ [][NextUpload]_vars

(***************************************************************************)
(* The store under the requests of several users, and the reads of their   *)
(* analysis and list views.                                                *)
(***************************************************************************)
MaxStored == 2

\* the rows a user may put to sales_data, two products for the first user
\* and one for the second: no quantity, so that no product has an estimate
SalesInputs ==
  {SalesRow(u, "p1", <<3, 0>>, 1) : u \in Users} \cup
  {SalesRow("u1", "p2", <<6, 0>>, 2)}

\* the rows a user may put to price_recommendations
RecommendationInputs ==
  {[user_id |-> u, product_name |-> "p1", category |-> CategoryOf["p1"],
    current_price |-> FromInt(3), recommended_price |-> FromInt(3),
    elasticity_score |-> Zero, product_type |-> "inelastic",
    expected_revenue_change |-> Zero, optimization_target |-> "revenue"] :
     u \in Users}

InitStore ==
  /\ NoCall
  /\ NoView
  /\ NoRun
  /\ NoApp

\* a user sends an INSERT to the store
InsertRows(uid) ==
  /\ \/ /\ Len(sales_data) < MaxStored
        /\ \E row \in SalesInputs :
             sales_data' = InsertSalesData(sales_data, <<row>>, uid).table
        /\ UNCHANGED price_recommendations
     \/ /\ Len(price_recommendations) < MaxStored
        /\ \E row \in RecommendationInputs :
             price_recommendations' =
               InsertRecommendation(price_recommendations, row, uid).table
        /\ UNCHANGED sales_data
  /\ UNCHANGED <<callVars, runVars, appVars, salesData, elasticityResults,
                 loading, toast, saved>>

\* a user sends an UPDATE of one row to the store
UpdateRows(uid) ==
  /\ \/ /\ \E k \in 1..Len(sales_data) : \E row \in SalesInputs :
             sales_data' =
               UpdateRow(sales_data, k, row, uid, RowAccepted(row)).table
        /\ UNCHANGED price_recommendations
     \/ /\ \E k \in 1..Len(price_recommendations) :
           \E row \in RecommendationInputs :
             price_recommendations' =
               UpdateRow(price_recommendations, k, row, uid,
                         RecommendationAccepted(row)).table
        /\ UNCHANGED sales_data
  /\ UNCHANGED <<callVars, runVars, appVars, salesData, elasticityResults,
                 loading, toast, saved>>

\* a user sends a DELETE of one row to the store
DeleteRows(uid) ==
  /\ \/ /\ \E k \in 1..Len(sales_data) :
             sales_data' = DeleteRow(sales_data, k, uid).table
        /\ UNCHANGED price_recommendations
     \/ /\ \E k \in 1..Len(price_recommendations) :
             price_recommendations' =
               DeleteRow(price_recommendations, k, uid).table
        /\ UNCHANGED sales_data
  /\ UNCHANGED <<callVars, runVars, appVars, salesData, elasticityResults,
                 loading, toast, saved>>

\* fetchRecommendations of the list view, run by the effect of its mount,
\* with the store's answer
FetchRecommendations(view) ==
  /\ session[view] # "null"
  /\ recommendations' =
       [recommendations EXCEPT ![view] =
          RecommendationsRead(price_recommendations, session[view],
                              session[view])]
  /\ listLoading' = [listLoading EXCEPT ![view] = FALSE]
  /\ UNCHANGED <<callVars, viewVars, runVars, session, step, uploadVars,
                 asyncVars, profile, dashLoading>>

\* the users whose analysis and list views are open: every user writes,
\* and the views of one of them read
Readers == {"u1"}

NextStore ==
  \/ \E uid \in Users : InsertRows(uid) \/ UpdateRows(uid) \/ DeleteRows(uid)
  \/ \E view \in Readers : FetchAsUser(view) \/ FetchRecommendations(view)

SpecStore == InitStore /\ [][NextStore]_vars

(***************************************************************************)
(* The analysis view with its reads under way: fetchSalesData is sent, run *)
(* by the store and answered in three steps, and Refresh may send it again *)
(* before an earlier one is answered.                                      *)
(***************************************************************************)
\* the request of the effect of a view that has mounted
MountRequest(op, view) ==
  [n |-> 0, op |-> op, view |-> view, user |-> session[view], rows |-> <<>>,
   answer |-> None, from |-> <<>>]

InitRefresh ==
  /\ NoCall
  /\ NoView
  /\ NoRun
  /\ session = [u \in Users |-> u]
  /\ step = None
  /\ NoUpload
  /\ pending = {MountRequest("fetchSalesData", view) : view \in Readers}
  /\ started = 0
  /\ answers = <<>>
  /\ NoPage

\* Refresh of the analysis view, which offers it when it is not loading:
\* fetchSalesData up to its await
Refresh(view) ==
  /\ ~loading[view]
  /\ started < MaxRequests
  /\ pending' = pending \cup {Request("fetchSalesData", view, <<>>)}
  /\ started' = started + 1
  /\ UNCHANGED <<callVars, viewVars, runVars, session, step, uploadVars,
                 answers, pageVars>>

\* the store runs the query of fetchSalesData, under the policy and the
\* filter of the query, for the user the request was sent by
StoreReads(req) ==
  /\ req.op = "fetchSalesData"
  /\ req.answer = None
  /\ \E from \in SalesRowsRead(sales_data, req.user, req.user) :
       pending' = (pending \ {req}) \cup
                    {[req EXCEPT !.answer = [kind |-> "rows"], !.from = from]}
  /\ UNCHANGED <<callVars, viewVars, runVars, session, step, uploadVars,
                 started, answers, pageVars>>

\* the columns of the rows a read has found
DataOf(from) == [i \in 1..Len(from) |-> Selected(from[i])]

\* the rest of fetchSalesData, from the answer on
FetchSalesDataAnswered(req) ==
  /\ req.op = "fetchSalesData"
  /\ req.answer # None
  /\ \E analysis \in {analyzeElasticity(DataOf(req.from))} :
        /\ salesData' = [salesData EXCEPT ![req.view] = DataOf(req.from)]
        /\ elasticityResults' =
             IF analysis.threw THEN elasticityResults
             ELSE [elasticityResults EXCEPT ![req.view] = analysis.results]
        /\ toast' =
             IF analysis.threw
             THEN [toast EXCEPT ![req.view] = "Failed to fetch sales data"]
             ELSE toast
  /\ loading' = [loading EXCEPT ![req.view] = FALSE]
  /\ answers' = [n \in DOMAIN answers \cup {req.n} |->
                   IF n = req.n THEN [view |-> req.view, from |-> req.from]
                   ELSE answers[n]]
  /\ pending' = pending \ {req}
  /\ UNCHANGED <<callVars, runVars, session, step, uploadVars, started,
                 pageVars, sales_data, price_recommendations, saved>>

NextRefresh ==
  \/ \E uid \in Users : InsertRows(uid)
  \/ \E view \in Readers : Refresh(view)
  \/ \E req \in pending : StoreReads(req)
  \/ \E req \in pending : FetchSalesDataAnswered(req)

SpecRefresh == InitRefresh /\ [][NextRefresh]_vars

(***************************************************************************)
(* The loading flags of the views with every request under way: each       *)
(* handler runs up to its await, the store answers or the request fails,   *)
(* and the rest of the handler runs, its finally included.  The upload     *)
(* view of one user and the dashboard, analysis and list views of the      *)
(* other are open.                                                         *)
(***************************************************************************)
\* the number of requests the handlers start while the loading flags are
\* followed
MaxLive == 2

\* the users whose dashboard, analysis view and list view are open
Viewers == Users \ Uploaders

\* the requests the effects of the views of a user send when the session
\* hook gives the user
MountOps == {"fetchProfile", "fetchSalesData", "fetchRecommendations"}

\* the form of the upload view with every field filled in
FilledForm ==
  [product_name |-> "p1", category |-> "c1", price |-> 3,
   quantity_sold |-> 3, sale_date |-> Today]

InitLive ==
  /\ NoCall
  /\ NoRun
  /\ sales_data = OtherRows
  /\ price_recommendations = <<>>
  /\ salesData = [u \in Users |-> <<>>]
  /\ elasticityResults = [u \in Users |-> <<>>]
  /\ loading = [u \in Users |-> TRUE]
  /\ toast = [u \in Users |-> "none"]
  /\ saved = [u \in Users |-> [p \in {} |-> None]]
  /\ session \in {s \in [Users -> Users \cup {"null"}] :
                    /\ \A u \in Uploaders : s[u] = u
                    /\ \A u \in Viewers : s[u] \in {u, "null"}}
  /\ step = None
  /\ formData = [u \in Users |-> FilledForm]
  /\ uploading = [u \in Users |-> FALSE]
  /\ pending = {MountRequest(op, view) :
                  op \in MountOps,
                  view \in {u \in Viewers : session[u] # "null"}}
  /\ started = 0
  /\ answers = <<>>
  /\ NoPage

\* the session hook gives the user of a view: the effects of the dashboard,
\* the analysis view and the list view run
UserArrives(view) ==
  /\ session[view] = "null"
  /\ session' = [session EXCEPT ![view] = view]
  /\ pending' = pending \cup
       {[MountRequest(op, view) EXCEPT !.user = view] : op \in MountOps}
  /\ UNCHANGED <<callVars, viewVars, runVars, step, uploadVars, started,
                 answers, pageVars>>

\* saveRecommendations up to its await: it raises the loading flag and
\* sends the rows
SaveRequested(view) ==
  /\ ~loading[view]
  /\ Len(elasticityResults[view]) # 0
  /\ session[view] # "null"
  /\ started < MaxRequests
  /\ \E recs \in {Recommendations(view)} :
       /\ pending' = pending \cup {Request("saveRecommendations", view, recs)}
       /\ saved' = [saved EXCEPT ![view] = SavedWith(view, recs)]
  /\ loading' = [loading EXCEPT ![view] = TRUE]
  /\ started' = started + 1
  /\ UNCHANGED <<callVars, runVars, session, step, uploadVars, answers,
                 pageVars, sales_data, price_recommendations, salesData,
                 elasticityResults, toast>>

\* saveRecommendations were it to lower the flag at the end of its try
\* and not in a finally
SaveAnsweredKeepsLoading(req) ==
  /\ req.op = "saveRecommendations"
  /\ \E answer \in {Upsert(price_recommendations, req.rows,
                           <<"user_id", "product_name">>)} :
       /\ price_recommendations' = answer.table
       /\ toast' = [toast EXCEPT ![req.view] =
                      IF answer.error = "null"
                      THEN "Price recommendations saved successfully"
                      ELSE answer.error]
       /\ loading' = IF answer.error = "null"
                     THEN [loading EXCEPT ![req.view] = FALSE]
                     ELSE loading
  /\ pending' = pending \ {req}
  /\ UNCHANGED <<callVars, runVars, session, step, uploadVars, started,
                 answers, pageVars, sales_data, salesData, elasticityResults,
                 saved>>

\* the rest of saveRecommendations, from the answer of the store on
SaveAnswered(req) ==
  /\ req.op = "saveRecommendations"
  /\ \E answer \in {Upsert(price_recommendations, req.rows,
                           <<"user_id", "product_name">>)} :
       /\ price_recommendations' = answer.table
       /\ toast' = [toast EXCEPT ![req.view] =
                      IF answer.error = "null"
                      THEN "Price recommendations saved successfully"
                      ELSE answer.error]
  /\ loading' = [loading EXCEPT ![req.view] = FALSE]
  /\ pending' = pending \ {req}
  /\ UNCHANGED <<callVars, runVars, session, step, uploadVars, started,
                 answers, pageVars, sales_data, salesData, elasticityResults,
                 saved>>

\* the rest of fetchRecommendations, from the answer of the store on
FetchRecommendationsAnswered(req) ==
  /\ req.op = "fetchRecommendations"
  /\ recommendations' =
       [recommendations EXCEPT ![req.view] =
          RecommendationsRead(price_recommendations, req.user, req.user)]
  /\ listLoading' = [listLoading EXCEPT ![req.view] = FALSE]
  /\ pending' = pending \ {req}
  /\ UNCHANGED <<callVars, viewVars, runVars, session, step, uploadVars,
                 started, answers, profile, dashLoading>>

\* the row of a user in the table of profiles
ProfileOf(user_id) == [username |-> user_id, role |-> "seller"]

\* the rest of fetchProfile, from the answer of the store on: the row of
\* the user, or the error of single() when there is none
FetchProfileAnswered(req) ==
  /\ req.op = "fetchProfile"
  /\ \/ /\ profile' = [profile EXCEPT ![req.view] = ProfileOf(req.user)]
        /\ UNCHANGED toast
     \/ /\ toast' = [toast EXCEPT ![req.view] = "Failed to load profile"]
        /\ UNCHANGED profile
  /\ dashLoading' = [dashLoading EXCEPT ![req.view] = FALSE]
  /\ pending' = pending \ {req}
  /\ UNCHANGED <<callVars, runVars, session, step, uploadVars, started,
                 answers, recommendations, listLoading, sales_data,
                 price_recommendations, salesData, elasticityResults,
                 loading, saved>>

\* the request of a fetch or of a save does not reach the store, or the
\* answer to a read does not reach the view: the catch and the finally of
\* its handler run
RequestFailed(req) ==
  /\ req.op \notin UploadOps
  /\ toast' = [toast EXCEPT ![req.view] =
                 CASE req.op = "fetchProfile" -> "Failed to load profile"
                   [] req.op = "fetchSalesData" -> "Failed to fetch sales data"
                   [] req.op = "fetchRecommendations" ->
                        "Failed to fetch recommendations"
                   [] req.op = "saveRecommendations" -> "Failed to fetch"]
  /\ loading' = IF req.op \in {"fetchSalesData", "saveRecommendations"}
                THEN [loading EXCEPT ![req.view] = FALSE]
                ELSE loading
  /\ listLoading' = IF req.op = "fetchRecommendations"
                    THEN [listLoading EXCEPT ![req.view] = FALSE]
                    ELSE listLoading
  /\ dashLoading' = IF req.op = "fetchProfile"
                    THEN [dashLoading EXCEPT ![req.view] = FALSE]
                    ELSE dashLoading
  /\ pending' = pending \ {req}
  /\ UNCHANGED <<callVars, runVars, session, step, uploadVars, started,
                 answers, recommendations, profile, sales_data,
                 price_recommendations, salesData, elasticityResults, saved>>

\* a request under way gets its answer, or fails
Responds ==
  \/ InsertAnswered
  \/ InsertFailed
  \/ \E req \in pending :
       \/ RequestFailed(req)
       \/ StoreReads(req)
       \/ FetchSalesDataAnswered(req)
       \/ SaveAnswered(req)
       \/ FetchRecommendationsAnswered(req)
       \/ FetchProfileAnswered(req)

NextLive ==
  \/ /\ started < MaxLive
     /\ \/ \E view \in Uploaders :
             \/ HandleSingleUpload(view)
             \/ GenerateMockData(view)
        \/ \E view \in Viewers :
             \/ Refresh(view)
             \/ SaveRequested(view)
  \/ \E view \in Viewers : UserArrives(view)
  \/ Responds

\* every request is settled in time: the promise of a request to the store
\* resolves with the answer or rejects with the failure
SpecLive == InitLive /\ [][NextLive]_vars /\ WF_vars(Responds)

(***************************************************************************)
(* The invocations of calculateElasticity for the product groups, taken    *)
(* line by line and in any order.                                          *)
(***************************************************************************)
GroupNames == {"p1", "p2"}

\* mutant: the invocations keep their locals in one place
FrameOfModule(product_name) == "module"

\* the frame that holds the locals of a product's invocation: its own
FrameOf(product_name) == product_name

\* the group arrays of n observations of a product, the latest first
GroupArrays(product_name, n, measurements) ==
  {[i \in 1..n |->
      [price |-> c[i][1], quantity_sold |-> c[i][2], sale_date |-> n + 1 - i,
       product_name |-> product_name,
       category |-> CategoryOf[product_name]]] :
     c \in [1..n -> measurements]}

InitRun ==
  /\ NoCall
  /\ NoView
  /\ NoApp
  /\ \E n \in 1..MaxLen :
       productGroups \in
         [p1 : GroupArrays("p1", n, {<<3, 6>>, <<6, 3>>, <<3, 0>>}),
          p2 : GroupArrays("p2", 2, {<<6, 12>>, <<3, 6>>, <<3, 0>>})]
  /\ given = productGroups
  /\ at = [p \in GroupNames |-> 0]
  /\ frames = [f \in {FrameOf(p) : p \in GroupNames} |-> None]
  /\ returned = [p \in GroupNames |-> None]

\* a caller calls calculateElasticity on the group of a product
\* (analyzeElasticity does for the groups of two or more)
Invoke(product_name) ==
  /\ at[product_name] = 0
  /\ at' = [at EXCEPT ![product_name] = 25]
  /\ UNCHANGED <<appVars, callVars, viewVars, productGroups, given, frames, returned>>

\* line 25
CheckLength(product_name) ==
  /\ at[product_name] = 25
  /\ IF Len(productGroups[product_name]) < 2
     THEN /\ at' = [at EXCEPT ![product_name] = 111]
          /\ returned' = [returned EXCEPT ![product_name] = Null]
     ELSE /\ at' = [at EXCEPT ![product_name] = 28]
          /\ UNCHANGED returned
  /\ UNCHANGED <<appVars, callVars, viewVars, productGroups, given, frames>>

\* line 28: the sort, in place
SortGroup(product_name) ==
  /\ at[product_name] = 28
  /\ productGroups' =
       [productGroups EXCEPT ![product_name] = ArraySort(@)]
  /\ at' = [at EXCEPT ![product_name] = 31]
  /\ UNCHANGED <<appVars, callVars, viewVars, given, frames, returned>>

\* lines 31-36: logPoints
TakeLogPoints(product_name) ==
  /\ at[product_name] = 31
  /\ frames' = [frames EXCEPT ![FrameOf(product_name)] =
                  [logPoints |-> LogPoints(productGroups[product_name])]]
  /\ at' = [at EXCEPT ![product_name] = 38]
  /\ UNCHANGED <<appVars, callVars, viewVars, productGroups, given, returned>>

\* lines 38-111: the estimate from logPoints and the sorted array
ReturnEstimate(product_name) ==
  /\ at[product_name] = 38
  /\ returned' =
       [returned EXCEPT ![product_name] =
          EstimateFrom(productGroups[product_name],
                       frames[FrameOf(product_name)].logPoints).ret]
  /\ at' = [at EXCEPT ![product_name] = 111]
  /\ UNCHANGED <<appVars, callVars, viewVars, productGroups, given, frames>>

NextRun ==
  \E product_name \in GroupNames :
    \/ Invoke(product_name)
    \/ CheckLength(product_name)
    \/ SortGroup(product_name)
    \/ TakeLogPoints(product_name)
    \/ ReturnEstimate(product_name)

SpecRun == InitRun /\ [][NextRun]_vars

(***************************************************************************)
(* Properties.                                                             *)
(***************************************************************************)
Called == result.kind # "none"
Estimated == result.kind = "result"
Optimized == optArgs # None

\* price and quantity both positive
Usable(point) == point.price > 0 /\ point.quantity_sold > 0

\* |x| > 1, read off the significand and exponent
MagnitudeAboveOne(x) ==
  \/ x.cls = "inf"
  \/ /\ x.cls = "fin"
     /\ x.man > 0
     /\ \/ x.exp > 1 - Precision
        \/ x.exp = 1 - Precision /\ x.man > Pow2[Precision - 1]

\* C1: calculateElasticity returns the no-result value for the empty array
\* and for every array of one observation.
C1_ShortSeriesNoResult ==
  (Called /\ Len(passed) < 2) => result.kind = "null"

C1_Witness ==
  Called /\ Len(passed) = 1 /\ Usable(passed[1]) /\ result.kind = "null"

\* C2: calculateElasticity returns the no-result value for every array of
\* two or more observations that all have the same price.
C2_EqualPricesNoResult ==
  (/\ Called
   /\ Len(passed) >= 2
   /\ \A i \in 1..Len(passed) : passed[i].price = passed[1].price)
  => result.kind = "null"

\* C3: the observations with price <= 0 or quantity <= 0 are left out of
\* logPoints and change neither elasticity nor r_squared; with fewer than 2
\* observations left the call returns the no-result value.
C3_UnusableLeftOut ==
  (Called /\ Len(passed) >= 2) =>
    LET kept == ArraySort(SelectSeq(passed, Usable))
        alone == calculateElasticity(SelectSeq(passed, Usable)).ret
    IN /\ frame.logPoints = [i \in 1..Len(kept) |-> LogPoint(kept[i])]
       /\ Len(kept) < 2 => result.kind = "null"
       /\ result.kind = alone.kind
       /\ Estimated =>
            /\ result.elasticity = alone.elasticity
            /\ result.r_squared = alone.r_squared

C3_Witness ==
  /\ Called
  /\ Len(passed) = 3
  /\ Len(SelectSeq(passed, Usable)) = 1
  /\ result.kind = "null"

\* the elasticities 1 and -1
UnitElasticities == {FromInt(1), FromInt(-1)}

\* C4: is_elastic is true exactly when |elasticity| > 1; an elasticity of
\* exactly 1 or -1 is inelastic.
C4_ElasticIffAboveOne ==
  Estimated =>
    /\ result.is_elastic <=> MagnitudeAboveOne(result.elasticity)
    /\ result.elasticity \in UnitElasticities => ~result.is_elastic

C4_Witness ==
  Estimated /\ result.elasticity = FromInt(-1) /\ ~result.is_elastic

\* the factors 0.90 and 1.10
CutFactor == Lit(90, 100)
RaiseFactor == Lit(110, 100)

\* C5: recommended_price is current_price x 0.90 when is_elastic and
\* current_price x 1.10 when not.
C5_RecommendedPrice ==
  Estimated =>
    result.recommended_price =
      FMul(result.current_price,
           IF result.is_elastic THEN CutFactor ELSE RaiseFactor)

C5_Witness ==
  /\ Estimated
  /\ result.is_elastic
  /\ result.current_price = FromInt(6)
  /\ result.recommended_price = FMul(FromInt(6), Lit(90, 100))

\* a > 0
Positive(a) == a.cls = "fin" /\ a.man > 0 /\ a.sgn = 1

Percent == FromInt(100)

\* the revenue change of the demand curve, written out
CurveRevenueChange(cp, cq, rp, e) ==
  LET predicted_quantity == FMul(cq, MathPow(FDiv(rp, cp), e))
  IN FMul(FDiv(FSub(FMul(rp, predicted_quantity), FMul(cp, cq)), FMul(cp, cq)),
          Percent)

\* the example of the specification: elasticity -2, price 100, quantity 50
ExampleRevenueChange ==
  RevenueChange(FromInt(100), FromInt(50),
                RecommendedPrice(IsElastic(FromInt(-2)), FromInt(100)),
                FromInt(-2))

\* the example's value lies between 11.0 and 11.2
ExampleAboutEleven ==
  /\ FGt(ExampleRevenueChange, Lit(110, 10))
  /\ FGt(Lit(112, 10), ExampleRevenueChange)

\* C6: with positive current price and quantity, expected_revenue_change is
\* ((recommended_price x predicted_quantity) - (current_price x
\* current_quantity)) / (current_price x current_quantity) x 100 with
\* predicted_quantity = current_quantity x (recommended_price /
\* current_price)^elasticity; for elasticity -2, price 100 and quantity 50 it
\* is about 11.11 (between 11.0 and 11.2 at the width of the format).
C6_ExpectedRevenueChange ==
  /\ (Estimated /\ Positive(result.current_price)
        /\ Positive(frame.current_quantity)) =>
       result.expected_revenue_change =
         CurveRevenueChange(result.current_price, frame.current_quantity,
                            result.recommended_price, result.elasticity)
  /\ ExampleAboutEleven

C6_Witness ==
  /\ Estimated
  /\ result.elasticity = FromInt(-2)
  /\ Positive(result.current_price)
  /\ Positive(frame.current_quantity)
  /\ FGt(result.expected_revenue_change, Lit(110, 10))
  /\ FGt(Lit(112, 10), result.expected_revenue_change)

\* the latest sale_date of an array
LatestDate(arr) ==
  CHOOSE d \in {arr[i].sale_date : i \in 1..Len(arr)} :
    \A i \in 1..Len(arr) : arr[i].sale_date <= d

\* C7: current_price and the quantity of the revenue prediction are those of
\* an observation with the latest sale_date of the whole array, also when
\* that observation is not usable for the regression.
C7_CurrentFromLatest ==
  Estimated =>
    \E i \in 1..Len(passed) :
      /\ passed[i].sale_date = LatestDate(passed)
      /\ result.current_price = FromInt(passed[i].price)
      /\ frame.current_quantity = FromInt(passed[i].quantity_sold)

C7_Witness ==
  /\ Estimated
  /\ \E i \in 1..Len(passed) :
       /\ \A j \in 1..Len(passed) : j # i => passed[j].sale_date < passed[i].sale_date
       /\ ~Usable(passed[i])
       /\ result.current_price = FromInt(passed[i].price)
       /\ frame.current_quantity = FromInt(passed[i].quantity_sold)

\* C8: product_name and category of a result are those of the observation
\* that was first in the array as the caller passed it.
C8_LabelsOfFirstPassed ==
  Estimated =>
    /\ result.product_name = passed[1].product_name
    /\ result.category = passed[1].category

\* C9: after a call the caller's array holds the same observations in the
\* same order as before it.
C9_InputUnchanged ==
  Called => dataPoints = passed

\* the factor of the specification's table
TableFactor(target, elasticity) ==
  IF target \in {"revenue", "undefined"}
  THEN (IF MagnitudeAboveOne(elasticity) THEN Lit(85, 100) ELSE Lit(115, 100))
  ELSE (IF MagnitudeAboveOne(elasticity) THEN Lit(90, 100) ELSE Lit(120, 100))

\* C10: optimal_price is currentPrice x f, f fixed by the target and by
\* whether |elasticity| > 1: 0.85 / 1.15 for revenue, 0.90 / 1.20 for profit;
\* |elasticity| = 1 takes the second factor, a left-out target is revenue.
C10_OptimalPriceTable ==
  Optimized =>
    optResult.optimal_price =
      FMul(optArgs.currentPrice,
           TableFactor(optArgs.optimizationTarget, optArgs.elasticity))

C10_Witness ==
  /\ Optimized
  /\ optArgs.optimizationTarget = "undefined"
  /\ optArgs.elasticity = FromInt(-1)
  /\ optArgs.currentPrice = FromInt(20)
  /\ optResult.optimal_price = FromInt(23)

\* the cost of a call, 0 when left out
CostOf(args) ==
  IF args.costPerUnit = Undefined THEN Zero ELSE args.costPerUnit

\* the profit change of the demand curve, written out
CurveProfitChange(cp, cq, cost, op, e) ==
  LET predicted_quantity == FMul(cq, MathPow(FDiv(op, cp), e))
  IN FMul(FDiv(FSub(FMul(FSub(op, cost), predicted_quantity),
                    FMul(FSub(cp, cost), cq)),
               FMul(FSub(cp, cost), cq)),
          Percent)

\* C11: with target profit, expected_change is 0 whenever the current profit
\* (currentPrice - costPerUnit) x currentQuantity is zero or negative, and
\* ((predicted_profit - current_profit) / current_profit) x 100 when it is
\* positive.
C11_ProfitBaseline ==
  (Optimized /\ optArgs.optimizationTarget = "profit") =>
    IF FGt(optArgs.currentPrice, CostOf(optArgs))
         /\ Positive(optArgs.currentQuantity)
    THEN optResult.expected_change =
           CurveProfitChange(optArgs.currentPrice, optArgs.currentQuantity,
                             CostOf(optArgs), optResult.optimal_price,
                             optArgs.elasticity)
    ELSE optResult.expected_change = Zero

C11_Witness ==
  /\ Optimized
  /\ optArgs.optimizationTarget = "profit"
  /\ optArgs.costPerUnit = FromInt(120)
  /\ optArgs.currentPrice = FromInt(100)
  /\ optArgs.currentQuantity = FromInt(50)
  /\ optResult.expected_change = Zero

\* the target of a call is revenue, given or by default
RevenueTarget(args) == args.optimizationTarget \in {"revenue", "undefined"}

\* the example call: elasticity -0.5, price 20, quantity 100, target revenue
ExampleHalf == FNeg(Lit(1, 2))
ExampleCall ==
  /\ Optimized
  /\ RevenueTarget(optArgs)
  /\ optArgs.elasticity = ExampleHalf
  /\ optArgs.currentPrice = FromInt(20)
  /\ optArgs.currentQuantity = FromInt(100)

\* expected_change of a revenue call is the revenue change of the demand curve
RevenueCurveFollowed ==
  (/\ Optimized
   /\ RevenueTarget(optArgs)
   /\ Positive(optArgs.currentPrice)
   /\ Positive(optArgs.currentQuantity))
  => optResult.expected_change =
       CurveRevenueChange(optArgs.currentPrice, optArgs.currentQuantity,
                          optResult.optimal_price, optArgs.elasticity)

\* the bounds of "about 9.86" and of "about 7.24"
About986Low == Lit(98, 10)
About986High == Lit(99, 10)
About724Low == Lit(71, 10)
About724High == Lit(74, 10)

\* C12 as claimed: with target revenue and positive price and quantity,
\* expected_change is the revenue change of the demand curve at the
\* candidate price; for elasticity -0.5, price 20, quantity 100 the
\* candidate is 23 and the change about 9.86.
C12_RevenueExample986 ==
  /\ RevenueCurveFollowed
  /\ ExampleCall =>
       /\ optResult.optimal_price = FromInt(23)
       /\ FGt(optResult.expected_change, About986Low)
       /\ FGt(About986High, optResult.expected_change)

\* C12 amended: the same formula; for elasticity -0.5, price 20, quantity
\* 100 the candidate is 23 and the change about 7.24.
C12_RevenueExample724 ==
  /\ RevenueCurveFollowed
  /\ ExampleCall =>
       /\ optResult.optimal_price = FromInt(23)
       /\ FGt(optResult.expected_change, About724Low)
       /\ FGt(About724High, optResult.expected_change)

C12_Witness ==
  /\ ExampleCall
  /\ optArgs.optimizationTarget = "revenue"
  /\ optResult.optimal_price = FromInt(23)
  /\ FGt(optResult.expected_change, About724Low)
  /\ FGt(About724High, optResult.expected_change)

\* C13: when current_price x current_quantity is 0, the revenue change
\* returned is NaN, neither an infinity nor a finite number: for
\* calculateElasticity when the current observation has quantity (or price)
\* 0, for optimizePrice with target revenue when currentQuantity is 0.
C13_ZeroRevenueIsNaN ==
  /\ (Estimated /\ (IsZero(result.current_price) \/ IsZero(frame.current_quantity)))
       => IsNaN(result.expected_revenue_change)
  /\ (Optimized /\ RevenueTarget(optArgs) /\ IsZero(optArgs.currentQuantity))
       => IsNaN(optResult.expected_change)

C13_Witness ==
  /\ Estimated
  /\ Len(passed) = 3
  /\ \E i \in 1..3 :
       /\ passed[i].quantity_sold = 0
       /\ passed[i].price > 0
       /\ \A j \in 1..3 : j # i => (Usable(passed[j]) /\ passed[j].sale_date < passed[i].sale_date)
  /\ \E i, j \in 1..3 : Usable(passed[i]) /\ Usable(passed[j]) /\ passed[i].price # passed[j].price
  /\ IsZero(frame.current_quantity)
  /\ IsNaN(result.expected_revenue_change)

\* C14: a second call of calculateElasticity on the array object that a
\* first call has processed returns what the first call returned.
C14_SecondCallSameResult ==
  second # None => second = result

C14_Witness ==
  /\ second # None
  /\ Estimated
  /\ second = result
  /\ Len(passed) = 3
  /\ passed[1].sale_date = 2
  /\ passed[2].sale_date = 1
  /\ passed[3].sale_date = 2
  /\ passed[1].price # passed[3].price

\* the usable observations of the passed array, by sale date, as log points
UsableLogs ==
  LET kept == ArraySort(SelectSeq(passed, Usable))
  IN [i \in 1..Len(kept) |->
        [lnP |-> MathLog(kept[i].price), lnQ |-> MathLog(kept[i].quantity_sold)]]

\* x[1] + ... + x[n], summed from 0 in the order of the series
RECURSIVE SeriesSum(_, _)
SeriesSum(x, n) == IF n = 0 THEN Zero ELSE FAdd(SeriesSum(x, n - 1), x[n])

SeriesMean(x) == FDiv(SeriesSum(x, Len(x)), FromInt(Len(x)))

\* sum of (lnP_i - mp)(lnQ_i - mq) over sum of (lnP_i - mp)^2
SlopeWith(pts, mp, mq) ==
  FDiv(SeriesSum([i \in 1..Len(pts) |->
                    FMul(FSub(pts[i].lnP, mp), FSub(pts[i].lnQ, mq))], Len(pts)),
       SeriesSum([i \in 1..Len(pts) |->
                    FMul(FSub(pts[i].lnP, mp), FSub(pts[i].lnP, mp))], Len(pts)))

LeastSquaresSlope(pts) ==
  SlopeWith(pts, SeriesMean([i \in 1..Len(pts) |-> pts[i].lnP]),
            SeriesMean([i \in 1..Len(pts) |-> pts[i].lnQ]))

\* (lnQ_2 - lnQ_1) / (lnP_2 - lnP_1)
TwoPointSlope(a, b) == FDiv(FSub(b.lnQ, a.lnQ), FSub(b.lnP, a.lnP))

\* relative distance allowed between two ways of computing one real number
\* in the format: 2^-(Precision - 5)
Tolerance == FDiv(FromInt(1), FromInt(Pow2[Precision - 5]))

\* x and y agree to within the tolerance
Close(x, y) ==
  /\ isFinite(x)
  /\ isFinite(y)
  /\ ~FGt(FAbs(FSub(x, y)), FMul(FAbs(y), Tolerance))

OneQuantity ==
  \A i, j \in 1..Len(passed) :
    (Usable(passed[i]) /\ Usable(passed[j])) =>
      passed[i].quantity_sold = passed[j].quantity_sold

\* 0 <= x <= 1
InUnitInterval(x) ==
  /\ isFinite(x)
  /\ x.sgn = 1
  /\ ~FGt(x, FromInt(1))

\* 1 - RSS / TSS of the line through the means with the given slope, 0 when
\* TSS is not positive
FitWith(pts, mp, mq, slope) ==
  LET tss == SeriesSum([i \in 1..Len(pts) |->
                          FMul(FSub(pts[i].lnQ, mq), FSub(pts[i].lnQ, mq))],
                       Len(pts))
      residual == [i \in 1..Len(pts) |->
                     FSub(pts[i].lnQ,
                          FAdd(mq, FMul(slope, FSub(pts[i].lnP, mp))))]
      rss == SeriesSum([i \in 1..Len(pts) |-> FMul(residual[i], residual[i])],
                       Len(pts))
  IN IF Positive(tss) THEN FSub(FromInt(1), FDiv(rss, tss)) ELSE Zero

GoodnessOfFit(pts, slope) ==
  FitWith(pts, SeriesMean([i \in 1..Len(pts) |-> pts[i].lnP]),
          SeriesMean([i \in 1..Len(pts) |-> pts[i].lnQ]), slope)

\* C16: r_squared is 0 when all usable observations have the same quantity;
\* otherwise it is 1 - RSS / TSS of the fitted line through the means; it
\* lies within [0, 1].
C16_RSquared ==
  Estimated =>
    /\ OneQuantity => result.r_squared = Zero
    /\ result.r_squared = GoodnessOfFit(UsableLogs, result.elasticity)
    /\ InUnitInterval(result.r_squared)

\* the observations of arr dated d, in the order of arr
DatedAt(arr, d) == SelectSeq(arr, LAMBDA o : o.sale_date = d)

\* the observations of arr dated within ds, by ascending date and, within a
\* date, in the order of arr
RECURSIVE ByDateThenInput(_, _)
ByDateThenInput(arr, ds) ==
  IF ds = {} THEN <<>>
  ELSE LET first == CHOOSE d \in ds : \A e \in ds : d <= e
       IN DatedAt(arr, first) \o ByDateThenInput(arr, ds \ {first})

\* the index of the last observation of arr that has the latest date
LastOfLatest(arr) ==
  CHOOSE i \in 1..Len(arr) :
    /\ arr[i].sale_date = LatestDate(arr)
    /\ \A j \in 1..Len(arr) : arr[j].sale_date = LatestDate(arr) => j <= i

\* C20: the call leaves the series in ascending order of sale_date with the
\* observations of one date in their input order, and current_price is the
\* price of the last observation in the input among those of the latest date.
C20_StableAscending ==
  /\ (Called /\ Len(passed) >= 2) =>
       dataPoints =
         ByDateThenInput(passed, {passed[i].sale_date : i \in 1..Len(passed)})
  /\ Estimated =>
       result.current_price = FromInt(passed[LastOfLatest(passed)].price)

C20_Witness ==
  /\ Estimated
  /\ Len(passed) = 3
  /\ passed[1].sale_date = 2
  /\ passed[2].sale_date = 1
  /\ passed[3].sale_date = 2
  /\ passed[1].price = 3
  /\ passed[3].price = 6
  /\ dataPoints = <<passed[2], passed[1], passed[3]>>
  /\ result.current_price = FromInt(6)

\* the positions of the rows price_recommendations holds for a user and a
\* product
RowsOfPair(user, product_name) ==
  {k \in 1..Len(price_recommendations) :
     /\ price_recommendations[k].user_id = user
     /\ price_recommendations[k].product_name = product_name}

\* C17: after any saves by any users, price_recommendations holds at most
\* one row per (user_id, product_name), and for a pair that has been saved
\* that row carries the values of the most recent save for the pair
C17_LastSaveStored ==
  \A user \in Users :
    /\ \A product_name \in ProductNames :
         Cardinality(RowsOfPair(user, product_name)) <= 1
    /\ \A product_name \in DOMAIN saved[user] :
         \E k \in RowsOfPair(user, product_name) :
           price_recommendations[k] = saved[user][product_name]

\* the products of the observations of data
ProductsOf(data) == {data[i].product_name : i \in 1..Len(data)}

\* the positions of the results for a product
ResultsFor(results, product_name) ==
  {k \in 1..Len(results) : results[k].product_name = product_name}

\* C18: once a view has analysed the observations it holds, it has exactly
\* one result for each product whose observations alone yield an estimate,
\* that estimate, and none for a product whose observations yield none,
\* whatever the other products yield
C18_OneResultPerProduct ==
  \A user \in Users :
    \A product_name \in ProductsOf(salesData[user]) :
      LET alone == calculateElasticity(GroupOf(salesData[user], product_name)).ret
          held == ResultsFor(elasticityResults[user], product_name)
      IN IF alone = Null THEN held = {}
         ELSE /\ Cardinality(held) = 1
              /\ \A k \in held : elasticityResults[user][k] = alone

\* C19: however the invocations for the product groups are interleaved,
\* each returns what calculateElasticity returns for its group alone, and
\* leaves the group as that call leaves it
C19_InterleavedAsAlone ==
  \A product_name \in GroupNames :
    at[product_name] = 111 =>
      /\ returned[product_name] = calculateElasticity(given[product_name]).ret
      /\ productGroups[product_name] =
           calculateElasticity(given[product_name]).array

\* both invocations have returned, one an estimate and one nothing, and
\* the sort has moved observations
C19_Witness ==
  /\ at = [p \in GroupNames |-> 111]
  /\ returned["p1"] \notin {None, Null}
  /\ returned["p2"] = Null
  /\ given["p1"] # productGroups["p1"]

\* a is a number and not below 0
NotNegative(a) == a.cls # "nan" /\ (IsZero(a) \/ a.sgn = 1)

\* C21: a result classified elastic, with positive current price and
\* quantity, recommends a price below the current one and expects the
\* revenue to grow
C21_ElasticCutGrowsRevenue ==
  (Estimated /\ result.is_elastic /\ Positive(result.current_price)
     /\ Positive(frame.current_quantity)) =>
    /\ FGt(result.current_price, result.recommended_price)
    /\ Positive(result.expected_revenue_change)

\* C22: a result classified inelastic, with positive current price and
\* quantity, recommends a price above the current one and expects the
\* revenue not to shrink
C22_InelasticRaiseKeepsRevenue ==
  (Estimated /\ ~result.is_elastic /\ Positive(result.current_price)
     /\ Positive(frame.current_quantity)) =>
    /\ FGt(result.recommended_price, result.current_price)
    /\ NotNegative(result.expected_revenue_change)

\* (f^(1 + elasticity) - 1) x 100
FactorRevenueChange(f, elasticity) ==
  FMul(FSub(MathPow(f, FAdd(Num1, elasticity)), Num1), Percent)

\* the current prices and quantities of other inputs
OtherInputs == {<<FromInt(3), FromInt(12)>>, <<FromInt(100), FromInt(50)>>}

\* the revenue change calculateElasticity returns at another current price
\* and quantity with the same elasticity
EstimateChangeAt(cp, cq) ==
  RevenueChange(cp, cq, RecommendedPrice(result.is_elastic, cp),
                result.elasticity)

\* the revenue change optimizePrice returns for the arguments of the last
\* call with another current price and quantity
OptimizeChangeAt(cp, cq) ==
  optimizePrice(optArgs.elasticity, cp, cq, optArgs.costPerUnit,
                optArgs.optimizationTarget).expected_change

\* C23: with positive current price and quantity the expected revenue
\* change of calculateElasticity and of optimizePrice (revenue target) is
\* (f^(1 + elasticity) - 1) x 100 for the factor f of the branch, and any
\* other current price and quantity with the same elasticity get the same
\* value
C23_ElasticityAlone ==
  /\ (Estimated /\ Positive(result.current_price)
        /\ Positive(frame.current_quantity)) =>
       /\ result.expected_revenue_change =
            FactorRevenueChange(IF result.is_elastic THEN CutFactor
                                ELSE RaiseFactor, result.elasticity)
       /\ \A other \in OtherInputs :
            EstimateChangeAt(other[1], other[2]) = result.expected_revenue_change
  /\ (Optimized /\ RevenueTarget(optArgs) /\ Positive(optArgs.currentPrice)
        /\ Positive(optArgs.currentQuantity)) =>
       /\ optResult.expected_change =
            FactorRevenueChange(OptimalFactor(optArgs.elasticity, "revenue"),
                                optArgs.elasticity)
       /\ \A other \in OtherInputs :
            OptimizeChangeAt(other[1], other[2]) = optResult.expected_change

\* a is not below 0 by more than the rounding of a percentage
NotNegativeWithinRounding(a) ==
  a.cls # "nan" /\ ~FGt(FNeg(FMul(Percent, Tolerance)), a)

\* C22 as amended: a result classified inelastic, with positive current
\* price and quantity, recommends a price above the current one and expects
\* a revenue change that is >= 0 to within rounding
C22_InelasticRaiseWithinRounding ==
  (Estimated /\ ~result.is_elastic /\ Positive(result.current_price)
     /\ Positive(frame.current_quantity)) =>
    /\ FGt(result.recommended_price, result.current_price)
    /\ NotNegativeWithinRounding(result.expected_revenue_change)

\* an inelastic result of elasticity -1 whose revenue change came out below 0
C22_Witness ==
  /\ Estimated
  /\ ~result.is_elastic
  /\ result.elasticity = FromInt(-1)
  /\ result.current_price = FromInt(5)
  /\ FGt(result.recommended_price, result.current_price)
  /\ FGt(Zero, result.expected_revenue_change)

\* x and y are the same percentage to within rounding, for a power taken
\* at the elasticity e
SamePercentage(x, y, e) ==
  /\ isFinite(x)
  /\ isFinite(y)
  /\ ~FGt(FAbs(FSub(x, y)),
          FMul(FMul(FAdd(Percent, FAbs(y)), FAdd(Num1, FAbs(e))), Tolerance))

\* C23 as amended: with positive current price and quantity the expected
\* revenue change of calculateElasticity and of optimizePrice (revenue
\* target) is (f^(1 + elasticity) - 1) x 100 for the factor f of the
\* branch to within rounding, and any other current price and quantity with
\* the same elasticity get the same value to within rounding
C23_ElasticityAloneWithinRounding ==
  /\ (Estimated /\ Positive(result.current_price)
        /\ Positive(frame.current_quantity)) =>
       /\ SamePercentage(result.expected_revenue_change,
                         FactorRevenueChange(IF result.is_elastic THEN CutFactor
                                             ELSE RaiseFactor, result.elasticity),
                         result.elasticity)
       /\ \A other \in OtherInputs :
            SamePercentage(EstimateChangeAt(other[1], other[2]),
                           result.expected_revenue_change, result.elasticity)
  /\ (Optimized /\ RevenueTarget(optArgs) /\ Positive(optArgs.currentPrice)
        /\ Positive(optArgs.currentQuantity)) =>
       /\ SamePercentage(optResult.expected_change,
                         FactorRevenueChange(OptimalFactor(optArgs.elasticity,
                                                           "revenue"),
                                             optArgs.elasticity),
                         optArgs.elasticity)
       /\ \A other \in OtherInputs :
            SamePercentage(OptimizeChangeAt(other[1], other[2]), optResult.expected_change,
                           optArgs.elasticity)

\* a revenue call at elasticity -0.5 and price 20 whose change differs in
\* the last places from the one at price 100 and quantity 50
C23_Witness ==
  /\ ExampleCall
  /\ OptimizeChangeAt(FromInt(100), FromInt(50)) # optResult.expected_change
  /\ SamePercentage(OptimizeChangeAt(FromInt(100), FromInt(50)),
                    optResult.expected_change, optArgs.elasticity)

\* what optimizePrice returns for the arguments of the last call with
\* another costPerUnit
OptimizeAtCost(cost) ==
  optimizePrice(optArgs.elasticity, optArgs.currentPrice,
                optArgs.currentQuantity, cost, optArgs.optimizationTarget)

\* C24: a call of optimizePrice with another costPerUnit, given or left
\* out, returns the same optimal_price, and with target revenue (given or
\* left out) the same expected_change as well
C24_CostIgnoredForRevenue ==
  Optimized =>
    \A cost \in Costs :
      /\ OptimizeAtCost(cost).optimal_price = optResult.optimal_price
      /\ RevenueTarget(optArgs) =>
           OptimizeAtCost(cost).expected_change = optResult.expected_change

\* a revenue call with a cost above the price, which returns a finite
\* change, and a profit call whose change another cost would alter
C24_Witness ==
  /\ Optimized
  /\ optArgs.costPerUnit = FromInt(120)
  /\ optArgs.currentPrice = FromInt(100)
  /\ optArgs.currentQuantity = FromInt(50)
  /\ optArgs.optimizationTarget = "undefined"
  /\ Positive(optResult.expected_change)
  /\ optimizePrice(optArgs.elasticity, optArgs.currentPrice,
                   optArgs.currentQuantity, FromInt(5), "profit")
       # optimizePrice(optArgs.elasticity, optArgs.currentPrice,
                       optArgs.currentQuantity, FromInt(20), "profit")

(***************************************************************************)
(* C25: every row saveRecommendations sends to the store has product_type  *)
(* "elastic" exactly when the magnitude of its elasticity_score is above   *)
(* 1 and "inelastic" otherwise, optimization_target "revenue" and the      *)
(* user_id of the signed-in user; a run under no user or with no result    *)
(* sends nothing.                                                          *)
(***************************************************************************)
SaveRan == step # None /\ step.op = "saveRecommendations"

C25_RowsSent ==
  SaveRan =>
    /\ \A k \in 1..Len(step.rows) :
         /\ step.rows[k].product_type =
              (IF MagnitudeAboveOne(step.rows[k].elasticity_score)
               THEN "elastic" ELSE "inelastic")
         /\ step.rows[k].optimization_target = "revenue"
         /\ step.rows[k].user_id = step.user
         /\ step.user = step.view
    /\ (step.user = "null" \/ step.held = 0)
         => ~step.asked /\ step.rows = <<>>

\* saves have sent an elastic and an inelastic row, and a later run under no
\* user, of a view that holds a result, has sent nothing
C25_Witness ==
  /\ SaveRan
  /\ step.user = "null"
  /\ step.held # 0
  /\ ~step.asked
  /\ \E u \in Users : \E p \in DOMAIN saved[u] :
       saved[u][p].product_type = "elastic"
  /\ \E u \in Users : \E p \in DOMAIN saved[u] :
       saved[u][p].product_type = "inelastic"

(***************************************************************************)
(* C26: after any sequence of uploads every row of sales_data has a price  *)
(* above 0 and a quantity_sold of at least 0; a single-record submit whose *)
(* price is 0, which the form permits, is rejected by the store, reports   *)
(* an error and leaves sales_data unchanged.                               *)
(***************************************************************************)
RowsInRange ==
  \A k \in 1..Len(sales_data) :
    sales_data[k].price > 0 /\ sales_data[k].quantity_sold >= 0

UploadRan == step # None /\ step.op \in UploadOps

\* the form holds the price 0 and something in every other field
ZeroPriceForm(fd) ==
  /\ fd.price = 0
  /\ fd.product_name # ""
  /\ fd.category # ""
  /\ fd.quantity_sold > 0

\* an upload the store has refused has told the user and stored nothing
RefusedUploadReported ==
  UploadRan /\ step.error # "null" =>
    step.stored = 0 /\ toast[step.view] = step.error

C26_ZeroPriceSubmitRejected ==
  /\ RowsInRange
  /\ \A view \in Uploaders :
       ZeroPriceForm(formData[view]) => FormValid(formData[view])
  /\ UploadRan /\ (\E k \in 1..Len(step.rows) : step.rows[k].price = 0)
       => step.error # "null"
  /\ RefusedUploadReported

\* the same with the form not submitting a price of 0: no request of the
\* upload view carries a price or a quantity that is not above 0, the store
\* refuses a row of price 0 put to it, and a refused upload is reported and
\* stores nothing
C26_ZeroPriceNotSubmitted ==
  /\ RowsInRange
  /\ \A req \in pending : \A k \in 1..Len(req.rows) :
       req.rows[k].price > 0 /\ req.rows[k].quantity_sold > 0
  /\ UploadRan => \A k \in 1..Len(step.rows) :
       step.rows[k].price > 0 /\ step.rows[k].quantity_sold > 0
  /\ \A view \in Uploaders :
       \E answer \in {InsertSalesData(sales_data,
                        <<WithUser(view, [formData[view] EXCEPT !.price = 0])>>,
                        view)} :
          answer.error # "null" /\ answer.table = sales_data
  /\ RefusedUploadReported

\* an upload has been stored, a later one has been refused, and the form
\* holds the price 0 with every other field filled
C26_Witness ==
  /\ UploadRan
  /\ step.error # "null"
  /\ Len(sales_data) > 0
  /\ ZeroPriceForm(formData[step.view])

(***************************************************************************)
(* C27: for any sequence of inserts and saves by several users, the sales  *)
(* data analysed for a user and the recommendations shown to or exported   *)
(* by a user hold only rows whose user_id is that user's, and a user can   *)
(* insert, update or delete only rows that carry their own user_id.        *)
(***************************************************************************)
\* the positions of the rows of a table that carry user_id
OwnRows(table, user_id) == {k \in 1..Len(table) : table[k].user_id = user_id}

\* data holds the columns of the rows of the table that carry user_id, of
\* each of them and of no other row
OwnSalesData(table, user_id, data) ==
  /\ Len(data) = Cardinality(OwnRows(table, user_id))
  /\ \A i \in 1..Len(data) : \E k \in OwnRows(table, user_id) :
       data[i] = Selected(table[k])
  /\ \A k \in OwnRows(table, user_id) : \E i \in 1..Len(data) :
       data[i] = Selected(table[k])

\* the table after differs from the table before in rows of uid only: one
\* such row more, one less, or such rows changed to such rows
Touched(before, after, uid) ==
  \/ after = before
  \/ /\ Len(after) = Len(before) + 1
     /\ SubSeq(after, 1, Len(before)) = before
     /\ after[Len(after)].user_id = uid
  \/ /\ Len(after) = Len(before)
     /\ \A k \in 1..Len(before) :
          after[k] # before[k] => before[k].user_id = uid /\ after[k].user_id = uid
  \/ \E k \in OwnRows(before, uid) : after = Without(before, k)

\* whatever a user asks of the store, only rows of that user change
WritesOwn ==
  \A uid \in Users :
    /\ \A row \in SalesInputs :
         /\ Touched(sales_data,
                    InsertSalesData(sales_data, <<row>>, uid).table, uid)
         /\ \A k \in 1..Len(sales_data) :
              Touched(sales_data,
                      UpdateRow(sales_data, k, row, uid, RowAccepted(row)).table,
                      uid)
    /\ \A k \in 1..Len(sales_data) :
         Touched(sales_data, DeleteRow(sales_data, k, uid).table, uid)
    /\ \A row \in RecommendationInputs :
         /\ Touched(price_recommendations,
                    InsertRecommendation(price_recommendations, row, uid).table,
                    uid)
         /\ \A k \in 1..Len(price_recommendations) :
              Touched(price_recommendations,
                      UpdateRow(price_recommendations, k, row, uid,
                                RecommendationAccepted(row)).table, uid)
    /\ \A k \in 1..Len(price_recommendations) :
         Touched(price_recommendations,
                 DeleteRow(price_recommendations, k, uid).table, uid)

\* the list view holds rows of its user only
ListsOwn ==
  \A view \in Users : \A i \in 1..Len(recommendations[view]) :
    recommendations[view][i].user_id = view

C27_OwnRowsOnly ==
  /\ []WritesOwn
  /\ []ListsOwn
  /\ [][\A view \in Users :
          /\ salesData'[view] # salesData[view] =>
               OwnSalesData(sales_data, view, salesData'[view])
          /\ recommendations'[view] # recommendations[view] =>
               Len(recommendations'[view]) =
                 Cardinality(OwnRows(price_recommendations, view))]_vars

\* both tables hold rows of both users, and the views of the first user
\* hold rows
C27_Witness ==
  /\ \A u \in Users : OwnRows(sales_data, u) # {}
  /\ \A u \in Users : OwnRows(price_recommendations, u) # {}
  /\ salesData["u1"] # <<>>
  /\ recommendations["u1"] # <<>>

(***************************************************************************)
(* C28: when several Refresh requests of the analysis view overlap, then   *)
(* once all of them have resolved the displayed salesData and              *)
(* elasticityResults are those of the request that was started last, in    *)
(* whatever order the answers arrive.                                      *)
(***************************************************************************)
\* the reads of a view that have been answered, by their numbers
ReadsOf(view) == {n \in DOMAIN answers : answers[n].view = view}

\* no read of the view is under way
Resolved(view) ==
  \A req \in pending : ~(req.op = "fetchSalesData" /\ req.view = view)

\* the read of the view that was started last
LatestRead(view) ==
  CHOOSE n \in ReadsOf(view) : \A m \in ReadsOf(view) : m <= n

Analysed(view) ==
  \E analysis \in {analyzeElasticity(salesData[view])} :
     ~analysis.threw /\ elasticityResults[view] = analysis.results

FetchFailedToast == "Failed to fetch sales data"

\* the rows of price_recommendations that carry user_id
StoredFor(user_id) ==
  SelectSeq(price_recommendations, LAMBDA row : row.user_id = user_id)

\* the view holds the analysis of its data
HeldAnalysed == \A view \in Users : Analysed(view)

\* a fetch that has failed has left the data and the results
FailedFetchKeepsData ==
  [][\A view \in Users :
       toast[view] # FetchFailedToast /\ toast'[view] = FetchFailedToast
         => /\ salesData'[view] = salesData[view]
            /\ elasticityResults'[view] = elasticityResults[view]]_vars

\* a save has stored the results held
SaveStoresHeld ==
  [][\A view \in Users :
       SaveRan' /\ step'.view = view /\ step'.asked /\ step' # step
         => StoredFor(view)' = Recommendations(view)]_vars

C29_ResultsOfHeldData ==
  /\ []HeldAnalysed
  /\ FailedFetchKeepsData
  /\ SaveStoresHeld

\* the requests of an operation that a view has under way
Underway(view, ops) == {req \in pending : req.view = view /\ req.op \in ops}

\* a flag that is raised for a view with its user has a request of the
\* view under way, whose answer lowers it
RaisedHasRequest ==
  /\ \A view \in Uploaders :
       uploading[view] => Underway(view, UploadOps) # {}
  /\ \A view \in Viewers :
       session[view] # "null" =>
         /\ loading[view] =>
              Underway(view, {"fetchSalesData", "saveRecommendations"}) # {}
         /\ listLoading[view] =>
              Underway(view, {"fetchRecommendations"}) # {}
         /\ dashLoading[view] => Underway(view, {"fetchProfile"}) # {}

\* C30: the flag that handleSingleUpload, generateMockData and
\* saveRecommendations raise is lowered again once the request is answered,
\* whether it succeeds or fails, and the loading flags of the dashboard, the
\* analysis view and the list view become false once the view has its user:
\* no flag stays raised after the requests of its view have been settled
C30_LoadingLowered ==
  /\ []RaisedHasRequest
  /\ \A view \in Uploaders : uploading[view] ~> ~uploading[view]
  /\ \A view \in Viewers :
       /\ (session[view] # "null" /\ loading[view]) ~> ~loading[view]
       /\ (session[view] # "null" /\ listLoading[view]) ~> ~listLoading[view]
       /\ (session[view] # "null" /\ dashLoading[view]) ~> ~dashLoading[view]

\* an upload has failed and a save has been refused, every request has been
\* settled and no flag is left raised
C30_Witness ==
  /\ pending = {}
  /\ step # None
  /\ step.op \in UploadOps
  /\ step.error # "null"
  /\ \A view \in Uploaders : ~uploading[view]
  /\ \E view \in Viewers :
       /\ session[view] # "null"
       /\ DOMAIN saved[view] # {}
       /\ ~loading[view]
       /\ ~listLoading[view]
       /\ ~dashLoading[view]

====
